---- MODULE Spec2Model ----
(***************************************************************************)
(* Model of the geminiproxy request-interception and key-rotation          *)
(* pipeline (src/proxy.go): the KeyManager pool, per-key statistics,       *)
(* global proxy statistics and the reverse proxy's Director / RoundTrip /  *)
(* ErrorHandler stages.                                                    *)
(*                                                                         *)
(* A pointer *APIKeyInfo is modelled as the 1-based position of the key in *)
(* km.keys (0 is nil).  A Go string is modelled as a sequence of           *)
(* one-character strings.  km.currentKeyIdx keeps the code's 0-based value.*)
(***************************************************************************)
EXTENDS Integers, Sequences, FiniteSets, TLC

\* ------------------------------------------------------------------ bounds
\* Largest number of lines in the keys file.
MaxKeys == 3
\* Longest recorded sequence of pool operations (SpecPool).
MaxTrace == 10
\* Most SetKeyStatus calls in one recorded sequence (SpecPool).
MaxStatusChanges == 2
\* Largest pool served by concurrent goroutines (Spec, SpecRing).
MaxServedKeys == 2
\* Number of goroutines serving inbound requests concurrently (Spec).
NumWorkers == 2
\* Most inbound requests served in one behaviour (Spec).
MaxRequests == 2
\* Most administrative calls in one behaviour (Spec).
MaxAdminOps == 1
\* Most inbound requests served in one behaviour (SpecRing).
MaxRingRequests == 6
\* Most operations (requests and administrative calls) in one behaviour where
\* the mutexes are modelled (SpecLocks).
MaxLockOps == 2
\* Most characters in a keys file that is read character by character
\* (SpecStartup).
MaxFileLen == 4

\* ------------------------------------------------------- program constants
MaxRecentErrors == 10
\* http.StatusBadGateway
StatusBadGateway == 502
\* The length of the dashboard's lists of keys.
topN == 5

\* ------------------------------------------------------------------ inputs
Alphabet == <<"A", "B", "C", "D", "E", "F">>
\* The n-th distinct API key string.
Secret(n) == <<Alphabet[n]>>
\* The n-th distinct API key string of more than five characters; all of them
\* end in the same five characters.
LongSecret(n) == <<Alphabet[n], "v", "w", "x", "y", "z">>
\* A string that is no key of the pool.
UnknownKey == <<"Z">>
\* The empty string (no "key" query parameter).
NoKey == <<>>

\* Contents of the keys file after comment and blank lines are dropped: every
\* list of 1..MaxKeys key strings, duplicates included, up to renaming of the
\* strings (a new string is always the next unused letter).
KeyFiles ==
    { f \in UNION { [1..n -> 1..MaxKeys] : n \in 1..MaxKeys } :
        /\ f[1] = 1
        /\ \A i \in 2..Len(f) : \E j \in 1..(i-1) : f[i] <= f[j] + 1 }

\* HTTP status codes the upstream may answer with.
StatusCodes == {200, 404}
\* Status codes on both sides of each end of the success range.
BoundaryCodes == {101, 200, 299, 300, 404}
\* Measured latencies in microseconds.
Latencies == {1, 4}
\* The latency measured when requests are served concurrently (Spec).
ConcurrentLatencies == {3}

VARIABLES
    keys,           \* km.keys: sequence of APIKeyInfo records
    currentKeyIdx,  \* km.currentKeyIdx
    stats,          \* ps.stats: GlobalProxyStats
    reqs,           \* per goroutine: the request it is serving and its position
    keyFile,        \* history: the key strings the pool was constructed from
    trace,          \* history: the pool operations called so far (SpecPool)
    calls,          \* history: per key, RecordRequest calls, those with success,
                    \* and the sum of the latencies passed
    errLog,         \* history: every ErrorDetail ever inserted, newest first
    budget,         \* requests and administrative calls still allowed
    clock,          \* time.Now(): advances with every reading
    keySnap,        \* the value last returned by GetKeyInfoSnapshot
    statsSnap,      \* the value last returned by GetGlobalProxyStats
    uncredentialed, \* history: requests recorded by RoundTrip without a key
    startup,        \* the keys file and how far main has come with it
    dashboard,      \* the APIKeyPerformance of the last dashboard response
    tui             \* the checkboxes of the TUI settings list and the last click

\* What the front ends (main, the dashboard API, the TUI) hold.
front == <<startup, dashboard, tui>>

vars == <<keys, currentKeyIdx, stats, reqs, keyFile, trace, calls, errLog,
          budget, clock, keySnap, statsSnap, uncredentialed, front>>

\* --------------------------------------------------------------- KeyManager
\* Masked display name: "..." plus the last five characters of a long key.
KeyName(keyStr) ==
    IF Len(keyStr) > 5
    THEN <<".", ".", ".">> \o SubSeq(keyStr, Len(keyStr) - 4, Len(keyStr))
    ELSE keyStr

\* A key constructed disabled.
NewAPIKeyInfoDisabled(keyStr) ==
    [ Name |-> KeyName(keyStr), Key |-> keyStr, Enabled |-> FALSE,
      Requests |-> 0, Successes |-> 0, Failures |-> 0,
      TotalLatencyMicroseconds |-> 0, AverageLatencyMicroseconds |-> 0,
      Status |-> "Disabled" ]

NewAPIKeyInfo(keyStr) ==
    [ Name |-> KeyName(keyStr), Key |-> keyStr, Enabled |-> TRUE,
      Requests |-> 0, Successes |-> 0, Failures |-> 0,
      TotalLatencyMicroseconds |-> 0, AverageLatencyMicroseconds |-> 0,
      Status |-> "Active" ]

\* NewKeyManager: one APIKeyInfo per raw key, in file order.
NewKeyManager(rawKeys) == [ i \in 1..Len(rawKeys) |-> NewAPIKeyInfo(rawKeys[i]) ]

\* ------------------------------------------------------------ the keys file
\* A keys file that os.ReadFile reads, with the given content, and one that
\* it cannot read.
Readable(content) == [readable |-> TRUE, content |-> content]
Unreadable == [readable |-> FALSE, content |-> <<>>]
\* Characters of a keys file: key characters, '#', white space (a space and a
\* carriage return) and the newline.
FileChars == {"A", "B", "#", " ", "\r", "\n"}
\* unicode.IsSpace, on the characters that are not the line separator.
IsSpace(c) == c \in {" ", "\r"}
\* The keys files of at most MaxFileLen characters, and the unreadable one.
KeysFiles ==
    {Readable(c) : c \in UNION { [1..n -> FileChars] : n \in 0..MaxFileLen }}
    \cup {Unreadable}

\* strings.Split(content, "\n"): the fields between the newlines; cur is the
\* field being read.
RECURSIVE SplitLines(_, _)
SplitLines(content, cur) ==
    IF content = <<>> THEN <<cur>>
    ELSE IF Head(content) = "\n"
         THEN <<cur>> \o SplitLines(Tail(content), <<>>)
         ELSE SplitLines(Tail(content), Append(cur, Head(content)))

RECURSIVE TrimLeft(_)
TrimLeft(line) ==
    IF line # <<>> /\ IsSpace(Head(line)) THEN TrimLeft(Tail(line)) ELSE line

RECURSIVE TrimRight(_)
TrimRight(line) ==
    IF line # <<>> /\ IsSpace(line[Len(line)])
    THEN TrimRight(SubSeq(line, 1, Len(line) - 1))
    ELSE line

\* strings.TrimSpace
TrimSpace(line) == TrimRight(TrimLeft(line))

\* The loop of readRawAPIKeys with the comment lines kept.
RECURSIVE KeepKeysAndComments(_)
KeepKeysAndComments(lines) ==
    IF lines = <<>> THEN <<>>
    ELSE LET key == TrimSpace(Head(lines)) IN
         IF key # <<>>
         THEN <<key>> \o KeepKeysAndComments(Tail(lines))
         ELSE KeepKeysAndComments(Tail(lines))

\* The loop of readRawAPIKeys: each line is trimmed and appended unless it is
\* empty or starts with '#'.
RECURSIVE KeepKeys(_)
KeepKeys(lines) ==
    IF lines = <<>> THEN <<>>
    ELSE LET key == TrimSpace(Head(lines)) IN
         IF key # <<>> /\ ~(Head(key) = "#")
         THEN <<key>> \o KeepKeys(Tail(lines))
         ELSE KeepKeys(Tail(lines))

readRawAPIKeys(file) ==
    IF ~file.readable
    THEN [err |-> TRUE, rawKeys |-> <<>>]
    ELSE [err |-> FALSE, rawKeys |-> KeepKeys(SplitLines(file.content, <<>>))]

\* NewKeyManager on a keys file: the error of readRawAPIKeys, an error when
\* no key was read, or the KeyManager of the keys read.
NewKeyManagerOf(file) ==
    LET r == readRawAPIKeys(file) IN
    IF r.err \/ Len(r.rawKeys) = 0
    THEN [err |-> TRUE, keys |-> <<>>, rawKeys |-> <<>>]
    ELSE [err |-> FALSE, keys |-> NewKeyManager(r.rawKeys), rawKeys |-> r.rawKeys]

\* A keys file holding the given keys, one per line.
RECURSIVE FileOf(_)
FileOf(rawKeys) ==
    IF rawKeys = <<>> THEN <<>>
    ELSE Head(rawKeys) \o <<"\n">> \o FileOf(Tail(rawKeys))

\* GetKey with the cursor left one short of wrapping (no modulo on advance).
RECURSIVE GetKeyScanNoWrap(_, _, _)
GetKeyScanNoWrap(ks, cur, i) ==
    IF i >= Len(ks)
    THEN [ret |-> 0, idx |-> cur]
    ELSE LET idx == (cur + i) % Len(ks) IN
         IF ks[idx + 1].Enabled
         THEN [ret |-> idx + 1, idx |-> idx + 1]
         ELSE GetKeyScanNoWrap(ks, cur, i + 1)

\* GetKey that does not skip disabled keys.
GetKeyScanNoSkip(ks, cur, i) ==
    [ret |-> (cur % Len(ks)) + 1, idx |-> (cur + 1) % Len(ks)]

\* GetKey that advances the cursor even when no key is enabled.
RECURSIVE GetKeyScanAdvance(_, _, _)
GetKeyScanAdvance(ks, cur, i) ==
    IF i >= Len(ks)
    THEN [ret |-> 0, idx |-> (cur + 1) % Len(ks)]
    ELSE LET idx == (cur + i) % Len(ks) IN
         IF ks[idx + 1].Enabled
         THEN [ret |-> idx + 1, idx |-> (idx + 1) % Len(ks)]
         ELSE GetKeyScanAdvance(ks, cur, i + 1)

\* GetKey that returns the key but leaves the cursor on it.
RECURSIVE GetKeyScanStuck(_, _, _)
GetKeyScanStuck(ks, cur, i) ==
    IF i >= Len(ks)
    THEN [ret |-> 0, idx |-> cur]
    ELSE LET idx == (cur + i) % Len(ks) IN
         IF ks[idx + 1].Enabled
         THEN [ret |-> idx + 1, idx |-> idx]
         ELSE GetKeyScanStuck(ks, cur, i + 1)

\* The loop of GetKey from iteration i: ret is the key returned (0 for nil),
\* idx the value of km.currentKeyIdx on return.
RECURSIVE GetKeyScan(_, _, _)
GetKeyScan(ks, cur, i) ==
    IF i >= Len(ks)
    THEN [ret |-> 0, idx |-> cur]
    ELSE LET idx == (cur + i) % Len(ks) IN
         IF ks[idx + 1].Enabled
         THEN [ret |-> idx + 1, idx |-> (idx + 1) % Len(ks)]
         ELSE GetKeyScan(ks, cur, i + 1)

GetKey(ks, cur) ==
    IF Len(ks) = 0 THEN [ret |-> 0, idx |-> cur] ELSE GetKeyScan(ks, cur, 0)

\* The range loop "if keyInfo.Key == keyStr": the first matching key, 0 if none.
FindKey(ks, keyStr) ==
    IF \E i \in 1..Len(ks) : ks[i].Key = keyStr
    THEN CHOOSE i \in 1..Len(ks) :
            /\ ks[i].Key = keyStr
            /\ \A j \in 1..(i-1) : ks[j].Key # keyStr
    ELSE 0

StatusLabel(enabled) == IF enabled THEN "Active" ELSE "Disabled"

\* SetKeyStatus that matches the argument against the masked name.
SetKeyStatusByName(ks, keyStr, enabled) ==
    IF \E i \in 1..Len(ks) : ks[i].Name = keyStr
    THEN LET i == CHOOSE i \in 1..Len(ks) :
                    /\ ks[i].Name = keyStr
                    /\ \A j \in 1..(i-1) : ks[j].Name # keyStr
         IN [keys |-> [ks EXCEPT ![i].Enabled = enabled,
                                 ![i].Status = StatusLabel(enabled)],
             err |-> FALSE]
    ELSE [keys |-> ks, err |-> TRUE]
\* A SetKeyStatus that replaces the credential by a fresh one with the wanted
\* status, losing what the credential had counted.
SetKeyStatusFresh(ks, keyStr, enabled) ==
    LET i == FindKey(ks, keyStr) IN
    IF i = 0
    THEN [keys |-> ks, err |-> TRUE]
    ELSE [keys |-> [ks EXCEPT ![i] = IF enabled
                                     THEN NewAPIKeyInfo(keyStr)
                                     ELSE NewAPIKeyInfoDisabled(keyStr)],
          err |-> FALSE]

\* SetKeyStatus: keys is the pool afterwards, err whether an error is returned.
SetKeyStatus(ks, keyStr, enabled) ==
    LET i == FindKey(ks, keyStr) IN
    IF i = 0
    THEN [keys |-> ks, err |-> TRUE]
    ELSE [keys |-> [ks EXCEPT ![i].Enabled = enabled,
                              ![i].Status = StatusLabel(enabled)],
          err |-> FALSE]

\* ToggleKeyStatus that disables the key whatever its flag was.
ToggleKeyStatusDisable(ks, keyStr) ==
    LET i == FindKey(ks, keyStr) IN
    IF i = 0
    THEN [keys |-> ks, err |-> TRUE]
    ELSE [keys |-> [ks EXCEPT ![i].Enabled = FALSE,
                              ![i].Status = StatusLabel(FALSE)],
          err |-> FALSE]

ToggleKeyStatus(ks, keyStr) ==
    LET i == FindKey(ks, keyStr) IN
    IF i = 0
    THEN [keys |-> ks, err |-> TRUE]
    ELSE [keys |-> [ks EXCEPT ![i].Enabled = ~ks[i].Enabled,
                              ![i].Status = StatusLabel(~ks[i].Enabled)],
          err |-> FALSE]

\* RecordRequest that counts a failed request as an attempt only.
RecordRequestDropFailure(ki, success, latency) ==
    [ki EXCEPT !.Requests = @ + 1,
               !.Successes = IF success THEN @ + 1 ELSE @,
               !.TotalLatencyMicroseconds = @ + latency]

\* RecordRequest that counts an attempt only when it succeeded.
RecordRequestLostAttempt(ki, success, latency) ==
    [ki EXCEPT !.Requests = IF success THEN @ + 1 ELSE @,
               !.Successes = IF success THEN @ + 1 ELSE @,
               !.Failures = IF success THEN @ ELSE @ + 1,
               !.TotalLatencyMicroseconds = @ + latency]

\* RecordRequest that recomputes the average before adding the latency.
RecordRequestStaleAverage(ki, success, latency) ==
    LET r == [ki EXCEPT !.Requests = @ + 1,
                        !.Successes = IF success THEN @ + 1 ELSE @,
                        !.Failures = IF success THEN @ ELSE @ + 1]
    IN [r EXCEPT !.AverageLatencyMicroseconds =
                     r.TotalLatencyMicroseconds \div r.Requests,
                 !.TotalLatencyMicroseconds = @ + latency]

\* RecordRequest that counts a failed request as two attempts.
RecordRequestCountTwice(ki, success, latency) ==
    LET r == [ki EXCEPT !.Requests = IF success THEN @ + 1 ELSE @ + 2,
                        !.Successes = IF success THEN @ + 1 ELSE @,
                        !.Failures = IF success THEN @ ELSE @ + 1,
                        !.TotalLatencyMicroseconds = @ + latency]
    IN [r EXCEPT !.AverageLatencyMicroseconds =
                     r.TotalLatencyMicroseconds \div r.Requests]

\* RecordRequest: the APIKeyInfo after the call.
RecordRequest(ki, success, latency) ==
    LET r == [ki EXCEPT !.Requests = @ + 1,
                        !.Successes = IF success THEN @ + 1 ELSE @,
                        !.Failures = IF success THEN @ ELSE @ + 1,
                        !.TotalLatencyMicroseconds = @ + latency]
    IN IF r.Requests > 0
       THEN [r EXCEPT !.AverageLatencyMicroseconds =
                          r.TotalLatencyMicroseconds \div r.Requests]
       ELSE r

\* GetKeyInfoSnapshot: a copy of every key, in pool order, without the
\* cumulative latency (left at its zero value).
GetKeyInfoSnapshot(ks) ==
    [ i \in 1..Len(ks) |->
        [ Name |-> ks[i].Name, Key |-> ks[i].Key, Enabled |-> ks[i].Enabled,
          Requests |-> ks[i].Requests, Successes |-> ks[i].Successes,
          Failures |-> ks[i].Failures, TotalLatencyMicroseconds |-> 0,
          AverageLatencyMicroseconds |-> ks[i].AverageLatencyMicroseconds,
          Status |-> ks[i].Status ] ]

\* ------------------------------------------------------------- global stats
\* Prepend that keeps one entry more than the capacity.
PrependErrorOffByOne(errors, e) ==
    LET l == <<e>> \o errors IN
    IF Len(l) > MaxRecentErrors + 1 THEN SubSeq(l, 1, MaxRecentErrors + 1) ELSE l

\* append([]ErrorDetail{e}, errors...) capped to the first MaxRecentErrors.
PrependError(errors, e) ==
    LET l == <<e>> \o errors IN
    IF Len(l) > MaxRecentErrors THEN SubSeq(l, 1, MaxRecentErrors) ELSE l

NotApplicable == <<"N", "/", "A">>
\* http.StatusText: the empty string for a code it does not know.
StatusText(code) ==
    CASE code = 101 -> "Switching Protocols"
      [] code = 200 -> "OK"
      [] code = 300 -> "Multiple Choices"
      [] code = 404 -> "Not Found"
      [] OTHER -> ""
\* err.Error() of a failed exchange.
TransportErrorText == "connection refused"
\* A success range that takes in 300.
IsSuccessStatusInclusive(code) == code >= 200 /\ code <= 300

IsSuccessStatus(code) == code >= 200 /\ code < 300

\* The ErrorDetail RoundTrip builds (the Model field, derived from the request
\* path alone, is left out).
TransportErrorDetail(now, apiKeyID, outcome, code) ==
    [ Timestamp |-> now, SourceID |-> "ProxyTransport", APIKeyID |-> apiKeyID,
      ErrorType |-> IF outcome = "err" THEN <<"TransportError">>
                                       ELSE <<"HTTP", code>>,
      Message |-> IF outcome = "err" THEN TransportErrorText
                                     ELSE StatusText(code) ]

\* The ErrorDetail the ErrorHandler builds.
HandlerErrorDetail(now) ==
    [ Timestamp |-> now, SourceID |-> "ProxyErrorHandler",
      APIKeyID |-> NotApplicable, ErrorType |-> <<"ProxyError">>,
      Message |-> TransportErrorText ]

\* The ErrorDetail RoundTrip records for a failed exchange of a request whose
\* key was found at position cur (0: no key found).
RoundTripErrorDetail(ks, cur, outcome, code, now) ==
    TransportErrorDetail(now, IF cur # 0 THEN ks[cur].Name ELSE NotApplicable,
                         outcome, code)

\* A global section that returns early on a transport error, before counting
\* the request.
RecordGlobalStatsSkipError(st, ks, cur, outcome, code, latency, now) ==
    IF outcome = "err"
    THEN [st EXCEPT !.TotalFailures = @ + 1,
                    !.RecentErrors =
                        PrependError(@, RoundTripErrorDetail(ks, cur, outcome,
                                                             code, now))]
    ELSE LET s1 == [st EXCEPT !.TotalRequests = @ + 1,
                              !.totalLatencyForAverage = @ + latency]
             s2 == [s1 EXCEPT !.OverallAverageLatencyMicroseconds =
                                 s1.totalLatencyForAverage \div s1.TotalRequests]
         IN IF IsSuccessStatus(code)
            THEN [s2 EXCEPT !.TotalSuccesses = @ + 1]
            ELSE [s2 EXCEPT !.TotalFailures = @ + 1,
                            !.RecentErrors =
                                PrependError(@, RoundTripErrorDetail(ks, cur,
                                                    outcome, code, now))]

\* The global section of RoundTrip (under ps.stats.mu) for a finished exchange.
RecordGlobalStats(st, ks, cur, outcome, code, latency, now) ==
    LET s1 == [st EXCEPT !.TotalRequests = @ + 1,
                         !.totalLatencyForAverage = @ + latency]
        s2 == IF s1.TotalRequests > 0
              THEN [s1 EXCEPT !.OverallAverageLatencyMicroseconds =
                        s1.totalLatencyForAverage \div s1.TotalRequests]
              ELSE s1
        e == RoundTripErrorDetail(ks, cur, outcome, code, now)
    IN IF outcome = "err"
       THEN [s2 EXCEPT !.TotalFailures = @ + 1,
                       !.RecentErrors = PrependError(@, e)]
       ELSE IF IsSuccessStatus(code)
            THEN [s2 EXCEPT !.TotalSuccesses = @ + 1]
            ELSE [s2 EXCEPT !.TotalFailures = @ + 1,
                            !.RecentErrors = PrependError(@, e)]

\* The ErrorHandler's section under ps.stats.mu.
ErrorHandlerStats(st, now) ==
    [st EXCEPT !.TotalFailures = @ + 1,
               !.RecentErrors = PrependError(@, HandlerErrorDetail(now))]

\* ------------------------------------------------------------ initial state
\* No dashboard response was produced yet.
NoDashboard == [TopPerformingKeys |-> <<>>, BottomPerformingKeys |-> <<>>]
\* The settings list was not drawn yet and nothing was clicked.
NoSettingsList == [checkboxes |-> <<>>, clicked |-> 0, checked |-> FALSE]

InitStats ==
    [ TotalRequests |-> 0, ActiveConnections |-> 0, TotalSuccesses |-> 0,
      TotalFailures |-> 0, OverallAverageLatencyMicroseconds |-> 0,
      RecentErrors |-> <<>>, totalLatencyForAverage |-> 0 ]

\* A goroutine serving no request.  key, auth and path are the outbound
\* request's "key" query parameter, whether it has an Authorization header,
\* and its URL path; sel is the key GetKey returned to the Director and cur
\* RoundTrip's currentKeyInfo; the n-fields count what the request has done to
\* the statistics so far; reply is the status code written to the client (0:
\* nothing written yet).  The remaining fields are used where the mutexes
\* are modelled (SpecLocks): the mutexes the goroutine holds, the loop
\* variables i and idx, the operation it runs with its arguments, and the
\* infos slice GetKeyInfoSnapshot is filling.
IdleRequest ==
    [ pc |-> "idle", key |-> NoKey, auth |-> FALSE, path |-> <<>>,
      sel |-> 0, cur |-> 0, outcome |-> "none",
      code |-> 0, latency |-> 0, nSucc |-> 0, nFail |-> 0, nErr |-> 0,
      nReq |-> 0, reply |-> 0,
      held |-> {}, i |-> 0, idx |-> 0, op |-> "none", arg |-> NoKey,
      flag |-> FALSE, infos |-> <<>> ]

\* The state after NewKeyManager and NewProxyServer, for a keys file that is
\* one of files.
InitWith(files) ==
    /\ keyFile \in files
    /\ keys = NewKeyManager(keyFile)
    /\ currentKeyIdx = 0
    /\ stats = InitStats
    /\ reqs = [w \in 1..NumWorkers |-> IdleRequest]
    /\ trace = <<>>
    /\ calls = [i \in 1..Len(keyFile) |-> [n |-> 0, ok |-> 0, lat |-> 0]]
    /\ errLog = <<>>
    /\ clock = 0
    /\ keySnap = <<>>
    /\ statsSnap = [ref |-> FALSE, val |-> InitStats]
    /\ uncredentialed = 0
    /\ startup = [file |-> Readable(FileOf(keyFile)), state |-> "running"]
    /\ dashboard = NoDashboard
    /\ tui = NoSettingsList

\* The state after construction from a keys file of at most maxLen short keys.
InitCommon(maxLen) ==
    InitWith({ [i \in 1..Len(f) |-> Secret(f[i])] :
                  f \in {g \in KeyFiles : Len(g) <= maxLen} })

\* --------------------------------------------- pool operations, sequentially
StatusChanges(tr) == Cardinality({i \in 1..Len(tr) : tr[i].op # "GetKey"})

\* The key strings of the pool.
PoolKeys == {keyFile[i] : i \in 1..Len(keyFile)}
\* Key strings an administrator may pass: every key of the pool and a stranger.
AdminKeys == PoolKeys \cup {UnknownKey}

PoolGetKey ==
    /\ Len(trace) < MaxTrace
    /\ LET r == GetKey(keys, currentKeyIdx) IN
        /\ currentKeyIdx' = r.idx
        /\ trace' = Append(trace, [op |-> "GetKey", arg |-> NoKey, flag |-> FALSE,
                                   ret |-> r.ret, at |-> currentKeyIdx])
    /\ UNCHANGED <<keys, stats, reqs, keyFile, calls, errLog, budget, clock,
                   keySnap, statsSnap,
                   uncredentialed, front>>

PoolSetKeyStatus ==
    /\ Len(trace) < MaxTrace
    /\ StatusChanges(trace) < MaxStatusChanges
    /\ \E k \in PoolKeys, b \in BOOLEAN :
        LET r == SetKeyStatus(keys, k, b) IN
        /\ keys' = r.keys
        /\ trace' = Append(trace, [op |-> "SetKeyStatus", arg |-> k, flag |-> b,
                                   ret |-> IF r.err THEN 0 ELSE 1,
                                   at |-> currentKeyIdx])
    /\ UNCHANGED <<currentKeyIdx, stats, reqs, keyFile, calls, errLog, budget, clock,
                   keySnap, statsSnap,
                   uncredentialed, front>>

InitPool == InitCommon(MaxKeys) /\ budget = [req |-> 0, admin |-> 0]

NextPool == PoolGetKey \/ PoolSetKeyStatus

SpecPool == InitPool /\ [][NextPool]_vars

\* ------------------------------------------------------ the request pipeline
\* "key" query parameters an inbound request may carry.
InboundKeys == {NoKey, Secret(1), UnknownKey}
\* Results of the upstream exchange: a transport error or a status code.
Exchanges == {[outcome |-> "err", code |-> 0]}
             \cup {[outcome |-> "resp", code |-> c] : c \in StatusCodes}
BoundaryExchanges == {[outcome |-> "err", code |-> 0]}
                     \cup {[outcome |-> "resp", code |-> c] : c \in BoundaryCodes}

Failed(r) == r.outcome = "err" \/ (r.outcome = "resp" /\ ~IsSuccessStatus(r.code))

\* The path of the target URL (GeminiAPIEndpoint has none).
TargetPath == <<>>
RootPath == <<"/">>
\* URL paths of inbound requests.
Paths == {RootPath, <<"/", "m">>}

\* The default director's join of the target path a and the request path b.
SingleJoiningSlash(a, b) ==
    LET aslash == Len(a) > 0 /\ a[Len(a)] = "/"
        bslash == Len(b) > 0 /\ b[1] = "/"
    IN IF aslash /\ bslash THEN a \o SubSeq(b, 2, Len(b))
       ELSE IF ~aslash /\ ~bslash THEN a \o <<"/">> \o b
       ELSE a \o b

\* Inbound requests: the "key" query parameter, whether an Authorization
\* header is present, and the URL path.
InboundRequests ==
    {[key |-> k, auth |-> a, path |-> RootPath] : k \in InboundKeys, a \in BOOLEAN}
WideInboundRequests ==
    {[key |-> k, auth |-> a, path |-> p] :
        k \in InboundKeys, a \in BOOLEAN, p \in Paths}

\* A Director that adds the key only when the query has none.
DirectorRequestKeepInbound(inbound, ks, ret) ==
    [ key |-> IF inbound.key # NoKey \/ ret = 0 THEN inbound.key ELSE ks[ret].Key,
      auth |-> FALSE,
      path |-> SingleJoiningSlash(TargetPath, inbound.path) ]

\* The outbound request the Director makes of an inbound one when GetKey
\* returned ret: the default director joins the paths, the Authorization
\* header is deleted and, unless ret is nil, q.Set("key", apiKeyInfo.Key).
DirectorRequest(inbound, ks, ret) ==
    [ key |-> IF ret = 0 THEN inbound.key ELSE ks[ret].Key,
      auth |-> FALSE,
      path |-> SingleJoiningSlash(TargetPath, inbound.path) ]

\* proxy.Director for a new inbound request served by goroutine w.
\* Idle goroutines are interchangeable: the lowest-numbered one serves it.
DirectorCall(w, inbound) ==
    LET r == GetKey(keys, currentKeyIdx)
        out == DirectorRequest(inbound, keys, r.ret)
    IN
    /\ currentKeyIdx' = r.idx
    /\ reqs' = [reqs EXCEPT ![w] =
                  [IdleRequest EXCEPT
                      !.pc = "roundtrip",
                      !.sel = r.ret,
                      !.key = out.key,
                      !.auth = out.auth,
                      !.path = out.path]]

DirectorWith(w, inbounds) ==
    /\ reqs[w].pc = "idle"
    /\ \A v \in 1..(w-1) : reqs[v].pc # "idle"
    /\ budget.req > 0
    /\ \E inbound \in inbounds : DirectorCall(w, inbound)
    /\ budget' = [budget EXCEPT !.req = @ - 1]
    /\ UNCHANGED <<keys, stats, keyFile, trace, calls, errLog, clock, keySnap, statsSnap,
                   uncredentialed, front>>

Director(w) == DirectorWith(w, InboundRequests)

\* RoundTrip up to the exchange: the in-flight counter goes up and the
\* APIKeyInfo is looked up from the "key" query parameter.
RoundTripBegin(w) ==
    /\ reqs[w].pc = "roundtrip"
    /\ stats' = [stats EXCEPT !.ActiveConnections = @ + 1]
    /\ reqs' = [reqs EXCEPT ![w].pc = "exchange",
                            ![w].cur = IF reqs[w].key # NoKey
                                       THEN FindKey(keys, reqs[w].key) ELSE 0]
    /\ UNCHANGED <<keys, currentKeyIdx, keyFile, trace, calls, errLog, budget,
                   clock, keySnap, statsSnap,
                   uncredentialed, front>>

\* ct.Transport.RoundTrip(req) returns a response or an error after latency l
\* (seen by no other goroutine), and RoundTrip updates the global statistics.
RoundTripExchangeWith(w, exchanges, latencies) ==
    /\ reqs[w].pc = "exchange"
    /\ \E x \in exchanges, l \in latencies :
        LET cur == reqs[w].cur IN
        /\ stats' = RecordGlobalStats(stats, keys, cur, x.outcome, x.code, l, clock)
        /\ clock' = IF Failed(x) THEN clock + 1 ELSE clock
        /\ errLog' = IF Failed(x)
                     THEN <<RoundTripErrorDetail(keys, cur, x.outcome, x.code,
                                                 clock)>> \o errLog
                     ELSE errLog
        /\ reqs' = [reqs EXCEPT
                      ![w].pc = IF cur # 0 THEN "recordkey" ELSE "return",
                      ![w].outcome = x.outcome,
                      ![w].code = x.code,
                      ![w].latency = l,
                      ![w].nSucc = @ + (stats'.TotalSuccesses - stats.TotalSuccesses),
                      ![w].nFail = @ + (stats'.TotalFailures - stats.TotalFailures),
                      ![w].nErr = @ + (Len(errLog') - Len(errLog)),
                      ![w].nReq = @ + (stats'.TotalRequests - stats.TotalRequests)]
        /\ uncredentialed' = IF cur = 0 THEN uncredentialed + 1 ELSE uncredentialed
    /\ UNCHANGED <<keys, currentKeyIdx, keyFile, trace, calls, budget, keySnap, statsSnap,
                   front>>

RoundTripExchange(w, latencies) == RoundTripExchangeWith(w, Exchanges, latencies)

\* RoundTrip's update of the statistics of the key found for the request.
RecordKey(w) ==
    /\ reqs[w].pc = "recordkey"
    /\ LET r == reqs[w]
           isSuccess == r.outcome = "resp" /\ IsSuccessStatus(r.code)
       IN /\ keys' = [keys EXCEPT ![r.cur] = RecordRequest(@, isSuccess, r.latency)]
          /\ calls' = [calls EXCEPT ![r.cur].n = @ + 1,
                                    ![r.cur].ok = IF isSuccess THEN @ + 1 ELSE @,
                                    ![r.cur].lat = @ + r.latency]
    /\ reqs' = [reqs EXCEPT ![w].pc = "return"]
    /\ UNCHANGED <<currentKeyIdx, stats, keyFile, trace, errLog, budget, clock,
                   keySnap, statsSnap,
                   uncredentialed, front>>

\* RoundTrip with the decrement placed after the exchange instead of deferred:
\* it is skipped when the exchange failed.
RoundTripReturnLeak(w) ==
    /\ reqs[w].pc = "return"
    /\ stats' = IF reqs[w].outcome = "err" THEN stats
                ELSE [stats EXCEPT !.ActiveConnections = @ - 1]
    /\ reqs' = [reqs EXCEPT ![w] =
                  IF reqs[w].outcome = "err"
                  THEN [@ EXCEPT !.pc = "errorhandler"]
                  ELSE IdleRequest]
    /\ UNCHANGED <<keys, currentKeyIdx, keyFile, trace, calls, errLog, budget,
                   clock, keySnap, statsSnap,
                   uncredentialed, front>>

\* A request r whose reply has been written: the goroutine is free again,
\* unless the written reply is kept to be observed (SpecReply).
Completed(r, observe) == IF observe THEN [r EXCEPT !.pc = "done"] ELSE IdleRequest

\* RoundTrip returns: the deferred decrement runs; a transport error is handed
\* to the ErrorHandler; a response is copied to the client by the reverse
\* proxy (ModifyResponse changes nothing), which completes the request.
RoundTripReturnWith(w, observe) ==
    /\ reqs[w].pc = "return"
    /\ stats' = [stats EXCEPT !.ActiveConnections = @ - 1]
    /\ reqs' = [reqs EXCEPT ![w] =
                  IF reqs[w].outcome = "err"
                  THEN [@ EXCEPT !.pc = "errorhandler"]
                  ELSE Completed([@ EXCEPT !.reply = reqs[w].code], observe)]
    /\ UNCHANGED <<keys, currentKeyIdx, keyFile, trace, calls, errLog, budget,
                   clock, keySnap, statsSnap,
                   uncredentialed, front>>

RoundTripReturn(w) == RoundTripReturnWith(w, FALSE)

\* An ErrorHandler that starts the request again with the next key.
ErrorHandlerRetry(w, observe) ==
    /\ reqs[w].pc = "errorhandler"
    /\ stats' = ErrorHandlerStats(stats, clock)
    /\ clock' = clock + 1
    /\ errLog' = <<HandlerErrorDetail(clock)>> \o errLog
    /\ LET r == GetKey(keys, currentKeyIdx) IN
        /\ currentKeyIdx' = r.idx
        /\ reqs' = [reqs EXCEPT ![w] =
                      [IdleRequest EXCEPT
                          !.pc = "roundtrip",
                          !.sel = r.ret,
                          !.key = IF r.ret = 0 THEN reqs[w].key ELSE keys[r.ret].Key,
                          !.path = reqs[w].path]]
    /\ UNCHANGED <<keys, keyFile, trace, calls, budget, keySnap, statsSnap,
                   uncredentialed, front>>

\* An ErrorHandler that writes nothing to the client: the reply goes out with
\* the default status 200.
ErrorHandlerSilent(w, observe) ==
    /\ reqs[w].pc = "errorhandler"
    /\ stats' = ErrorHandlerStats(stats, clock)
    /\ clock' = clock + 1
    /\ errLog' = <<HandlerErrorDetail(clock)>> \o errLog
    /\ reqs' = [reqs EXCEPT ![w] = Completed([@ EXCEPT !.reply = 200], observe)]
    /\ UNCHANGED <<keys, currentKeyIdx, keyFile, trace, calls, budget, keySnap, statsSnap,
                   uncredentialed, front>>

\* proxy.ErrorHandler for the error RoundTrip returned: it records the error
\* and writes a 502 reply, which completes the request.
ErrorHandlerWith(w, observe) ==
    /\ reqs[w].pc = "errorhandler"
    /\ stats' = ErrorHandlerStats(stats, clock)
    /\ clock' = clock + 1
    /\ errLog' = <<HandlerErrorDetail(clock)>> \o errLog
    /\ reqs' = [reqs EXCEPT ![w] =
                  Completed([@ EXCEPT !.reply = StatusBadGateway], observe)]
    /\ UNCHANGED <<keys, currentKeyIdx, keyFile, trace, calls, budget, keySnap, statsSnap,
                   uncredentialed, front>>

ErrorHandler(w) == ErrorHandlerWith(w, FALSE)

\* ServeHTTP returns after the reply was written.
ServeHTTPReturn(w) ==
    /\ reqs[w].pc = "done"
    /\ reqs' = [reqs EXCEPT ![w] = IdleRequest]
    /\ UNCHANGED <<keys, currentKeyIdx, stats, keyFile, trace, calls, errLog,
                   budget, clock, keySnap, statsSnap,
                   uncredentialed, front>>

\* ----------------------------------------------------- administrative calls
AdminSetKeyStatus ==
    /\ budget.admin > 0
    /\ \E k \in AdminKeys, b \in BOOLEAN : keys' = SetKeyStatus(keys, k, b).keys
    /\ budget' = [budget EXCEPT !.admin = @ - 1]
    /\ UNCHANGED <<currentKeyIdx, stats, reqs, keyFile, trace, calls, errLog,
                   clock, keySnap, statsSnap,
                   uncredentialed, front>>

AdminToggleKeyStatus ==
    /\ budget.admin > 0
    /\ \E k \in AdminKeys : keys' = ToggleKeyStatus(keys, k).keys
    /\ budget' = [budget EXCEPT !.admin = @ - 1]
    /\ UNCHANGED <<currentKeyIdx, stats, reqs, keyFile, trace, calls, errLog,
                   clock, keySnap, statsSnap,
                   uncredentialed, front>>

AdminGetKeyInfoSnapshot ==
    /\ budget.admin > 0
    /\ keySnap' = GetKeyInfoSnapshot(keys)
    /\ budget' = [budget EXCEPT !.admin = @ - 1]
    /\ UNCHANGED <<keys, currentKeyIdx, stats, reqs, keyFile, trace, calls,
                   errLog, clock, statsSnap,
                   uncredentialed, front>>

Init == InitCommon(MaxServedKeys) /\ budget = [req |-> MaxRequests, admin |-> MaxAdminOps]

Next ==
    \/ \E w \in 1..NumWorkers :
          \/ Director(w) \/ RoundTripBegin(w)
          \/ RoundTripExchange(w, ConcurrentLatencies)
          \/ RecordKey(w) \/ RoundTripReturn(w) \/ ErrorHandler(w)
    \/ AdminSetKeyStatus
    \/ AdminToggleKeyStatus

Spec == Init /\ [][Next]_vars

\* Every goroutine that is inside a request keeps running: the exchange
\* terminates, locks are granted and the handler is scheduled.  Nothing makes
\* a new request arrive or an administrator act.
Fairness ==
    \A w \in 1..NumWorkers :
        /\ WF_vars(RoundTripBegin(w))
        /\ WF_vars(RoundTripExchange(w, ConcurrentLatencies))
        /\ WF_vars(RecordKey(w))
        /\ WF_vars(RoundTripReturn(w))
        /\ WF_vars(ErrorHandler(w))

\* Concurrent requests with no administrative calls: every goroutine that
\* has a step to take eventually takes it.
InitLive == InitCommon(MaxServedKeys) /\ budget = [req |-> MaxRequests, admin |-> 0]

NextLive ==
    \E w \in 1..NumWorkers :
        \/ Director(w)
        \/ RoundTripBegin(w)
        \/ RoundTripExchange(w, ConcurrentLatencies)
        \/ RecordKey(w)
        \/ RoundTripReturn(w)
        \/ ErrorHandler(w)

SpecLive == InitLive /\ [][NextLive]_vars /\ Fairness

\* Requests served one at a time by a single goroutine, with no administrative
\* calls: long enough runs to fill the recent-errors list.
InitRing == InitCommon(MaxServedKeys) /\ budget = [req |-> MaxRingRequests, admin |-> 0]

NextRing ==
    \/ Director(1) \/ RoundTripBegin(1) \/ RoundTripExchange(1, Latencies)
    \/ RecordKey(1) \/ RoundTripReturn(1) \/ ErrorHandler(1)

SpecRing == InitRing /\ [][NextRing]_vars

\* Requests served one at a time whose upstream answers with status codes
\* around the ends of the success range.
InitClassify == InitCommon(MaxServedKeys) /\ budget = [req |-> MaxRequests, admin |-> 0]

NextClassify ==
    \/ Director(1)
    \/ RoundTripBegin(1)
    \/ RoundTripExchangeWith(1, BoundaryExchanges, ConcurrentLatencies)
    \/ RecordKey(1)
    \/ RoundTripReturn(1)
    \/ ErrorHandler(1)

SpecClassify == InitClassify /\ [][NextClassify]_vars

\* Requests served one at a time, the reply written to the client staying
\* visible until ServeHTTP returns.
InitReply == InitCommon(MaxServedKeys) /\ budget = [req |-> MaxRequests, admin |-> 0]

NextReply ==
    \/ Director(1)
    \/ RoundTripBegin(1)
    \/ RoundTripExchange(1, ConcurrentLatencies)
    \/ RecordKey(1)
    \/ RoundTripReturnWith(1, TRUE)
    \/ ErrorHandlerWith(1, TRUE)
    \/ ServeHTTPReturn(1)

SpecReply == InitReply /\ [][NextReply]_vars

\* ------------------------------- requests and status changes, one at a time
\* Keys files of short keys and of long keys that share a masked name.
WideKeyFiles ==
    UNION { { [i \in 1..Len(f) |-> Secret(f[i])],
              [i \in 1..Len(f) |-> LongSecret(f[i])] } :
            f \in {g \in KeyFiles : Len(g) <= MaxServedKeys} }

\* Strings an administrator may pass: every key of the pool, the masked name
\* of every key, and a stranger.
WideAdminKeys == PoolKeys \cup {KeyName(k) : k \in PoolKeys} \cup {UnknownKey}

\* In SpecWide trace holds the latest call only: the inbound request of a
\* Director call, or the arguments and result of a status change.
WideDirector ==
    /\ reqs[1].pc = "idle"
    /\ budget.req > 0
    /\ \E inbound \in WideInboundRequests :
        /\ DirectorCall(1, inbound)
        /\ trace' = <<[op |-> "Director", inbound |-> inbound]>>
    /\ budget' = [budget EXCEPT !.req = @ - 1]
    /\ UNCHANGED <<keys, stats, keyFile, calls, errLog, clock, keySnap, statsSnap,
                   uncredentialed, front>>

WideSetKeyStatus ==
    /\ budget.admin > 0
    /\ \E k \in WideAdminKeys, b \in BOOLEAN :
        LET r == SetKeyStatus(keys, k, b) IN
        /\ keys' = r.keys
        /\ trace' = <<[op |-> "SetKeyStatus", arg |-> k, flag |-> b, err |-> r.err]>>
    /\ budget' = [budget EXCEPT !.admin = @ - 1]
    /\ UNCHANGED <<currentKeyIdx, stats, reqs, keyFile, calls, errLog, clock,
                   keySnap, statsSnap,
                   uncredentialed, front>>

WideToggleKeyStatus ==
    /\ budget.admin > 0
    /\ \E k \in WideAdminKeys :
        LET r == ToggleKeyStatus(keys, k) IN
        /\ keys' = r.keys
        /\ trace' = <<[op |-> "ToggleKeyStatus", arg |-> k, flag |-> FALSE,
                       err |-> r.err]>>
    /\ budget' = [budget EXCEPT !.admin = @ - 1]
    /\ UNCHANGED <<currentKeyIdx, stats, reqs, keyFile, calls, errLog, clock,
                   keySnap, statsSnap,
                   uncredentialed, front>>

InitWide == InitWith(WideKeyFiles) /\ budget = [req |-> MaxRequests, admin |-> MaxAdminOps]

NextWide ==
    \/ WideDirector
    \/ RoundTripBegin(1)
    \/ RoundTripExchange(1, ConcurrentLatencies)
    \/ RecordKey(1)
    \/ RoundTripReturn(1)
    \/ ErrorHandler(1)
    \/ WideSetKeyStatus
    \/ WideToggleKeyStatus

SpecWide == InitWide /\ [][NextWide]_vars

\* ------------------------------------------------------------ the mutexes
KmMu == <<"km">>
StatsMu == <<"stats">>
\* The mutex of the i-th key of the pool.
KeyMu(i) == <<"key", i>>

\* Lock returns only when no goroutine holds the mutex.
Free(l) == \A v \in 1..NumWorkers : l \notin reqs[v].held

\* Idle goroutines are interchangeable: the lowest-numbered one takes the next
\* operation, as long as fewer than MaxLockOps were started.
Available(w) ==
    /\ reqs[w].pc = "idle"
    /\ \A v \in 1..(w-1) : reqs[v].pc # "idle"
    /\ budget.req + budget.admin > MaxLockOps

\* The inbound request of the runs with mutexes: no key, no Authorization.
PlainInbound == [key |-> NoKey, auth |-> FALSE, path |-> RootPath]
\* Results of the upstream exchange in the runs with mutexes.
LockExchanges == {[outcome |-> "err", code |-> 0], [outcome |-> "resp", code |-> 200]}

\* GetKey that does not take km.mu.
GetKeyLockNone(w) ==
    /\ Available(w)
    /\ budget.req > 0
    /\ budget' = [budget EXCEPT !.req = @ - 1]
    /\ reqs' = [reqs EXCEPT ![w] =
                  [IdleRequest EXCEPT !.pc = "GetKey.keylock", !.op = "Director",
                                      !.i = 0,
                                      !.idx = (currentKeyIdx + 0) % Len(keys)]]
    /\ UNCHANGED <<keys, currentKeyIdx, stats, keyFile, trace, calls, errLog,
                   clock, keySnap, statsSnap,
                   uncredentialed, front>>

\* The Director is called for a new inbound request and calls GetKey, which
\* takes km.mu and enters its loop.
GetKeyLock(w) ==
    /\ Available(w)
    /\ budget.req > 0
    /\ Free(KmMu)
    /\ budget' = [budget EXCEPT !.req = @ - 1]
    /\ reqs' = [reqs EXCEPT ![w] =
                  [IdleRequest EXCEPT !.pc = "GetKey.keylock", !.op = "Director",
                                      !.held = {KmMu}, !.i = 0,
                                      !.idx = (currentKeyIdx + 0) % Len(keys)]]
    /\ UNCHANGED <<keys, currentKeyIdx, stats, keyFile, trace, calls, errLog,
                   clock, keySnap, statsSnap,
                   uncredentialed, front>>

\* A GetKey loop that locks km.mu again before it locks the key.
GetKeyLockKeyRelock(w) ==
    /\ reqs[w].pc = "GetKey.keylock"
    /\ Free(KmMu)
    /\ Free(KeyMu(reqs[w].idx + 1))
    /\ reqs' = [reqs EXCEPT ![w].pc = "GetKey.read",
                            ![w].held = @ \cup {KeyMu(reqs[w].idx + 1)}]
    /\ UNCHANGED <<keys, currentKeyIdx, stats, keyFile, trace, calls, errLog,
                   budget, clock, keySnap, statsSnap,
                   uncredentialed, front>>

\* keyInfo.mu.Lock() in the loop of GetKey.
GetKeyLockKey(w) ==
    /\ reqs[w].pc = "GetKey.keylock"
    /\ Free(KeyMu(reqs[w].idx + 1))
    /\ reqs' = [reqs EXCEPT ![w].pc = "GetKey.read",
                            ![w].held = @ \cup {KeyMu(reqs[w].idx + 1)}]
    /\ UNCHANGED <<keys, currentKeyIdx, stats, keyFile, trace, calls, errLog,
                   budget, clock, keySnap, statsSnap,
                   uncredentialed, front>>

\* GetKey reads Enabled into isEnabled and unlocks the key.
GetKeyRead(w) ==
    /\ reqs[w].pc = "GetKey.read"
    /\ reqs' = [reqs EXCEPT ![w].pc = "GetKey.check",
                            ![w].flag = keys[reqs[w].idx + 1].Enabled,
                            ![w].held = @ \ {KeyMu(reqs[w].idx + 1)}]
    /\ UNCHANGED <<keys, currentKeyIdx, stats, keyFile, trace, calls, errLog,
                   budget, clock, keySnap, statsSnap, uncredentialed, front>>

\* GetKey tests isEnabled: an enabled key is returned after the cursor is set
\* (the deferred unlock of km.mu runs) and the Director attaches it; otherwise
\* the loop goes on, and returns nil after the last key.
GetKeyCheck(w) ==
    /\ reqs[w].pc = "GetKey.check"
    /\ LET r == reqs[w]
           N == Len(keys)
           isEnabled == r.flag
           ret == IF isEnabled THEN r.idx + 1 ELSE 0
           out == DirectorRequest(PlainInbound, keys, ret)
       IN IF isEnabled \/ r.i + 1 >= N
          THEN /\ currentKeyIdx' = IF isEnabled THEN (r.idx + 1) % N
                                                ELSE currentKeyIdx
               /\ reqs' = [reqs EXCEPT ![w] =
                             [r EXCEPT !.pc = "RoundTrip.enter", !.held = {},
                                       !.sel = ret, !.key = out.key,
                                       !.auth = out.auth, !.path = out.path]]
          ELSE /\ currentKeyIdx' = currentKeyIdx
               /\ reqs' = [reqs EXCEPT ![w] =
                             [r EXCEPT !.pc = "GetKey.keylock",
                                       !.i = r.i + 1,
                                       !.idx = (currentKeyIdx + r.i + 1) % N]]
    /\ UNCHANGED <<keys, stats, keyFile, trace, calls, errLog, budget, clock,
                   keySnap, statsSnap,
                   uncredentialed, front>>

\* RoundTrip starts: atomic.AddInt64(&ActiveConnections, 1).
RoundTripEnter(w) ==
    /\ reqs[w].pc = "RoundTrip.enter"
    /\ stats' = [stats EXCEPT !.ActiveConnections = @ + 1]
    /\ reqs' = [reqs EXCEPT ![w].pc = IF reqs[w].key # NoKey
                                      THEN "RoundTrip.find"
                                      ELSE "RoundTrip.exchange"]
    /\ UNCHANGED <<keys, currentKeyIdx, keyFile, trace, calls, errLog, budget,
                   clock, keySnap, statsSnap,
                   uncredentialed, front>>

\* A lookup that leaves km.mu locked until RoundTrip returns.
RoundTripFindKeepLock(w) ==
    /\ reqs[w].pc = "RoundTrip.find"
    /\ Free(KmMu)
    /\ reqs' = [reqs EXCEPT ![w].pc = "RoundTrip.exchange",
                            ![w].held = {KmMu},
                            ![w].cur = FindKey(keys, reqs[w].key)]
    /\ UNCHANGED <<keys, currentKeyIdx, stats, keyFile, trace, calls, errLog,
                   budget, clock, keySnap, statsSnap,
                   uncredentialed, front>>

\* RoundTrip looks the key up: km.mu is locked, the keys are scanned, km.mu
\* is unlocked.
RoundTripFind(w) ==
    /\ reqs[w].pc = "RoundTrip.find"
    /\ Free(KmMu)
    /\ reqs' = [reqs EXCEPT ![w].pc = "RoundTrip.exchange",
                            ![w].cur = FindKey(keys, reqs[w].key)]
    /\ UNCHANGED <<keys, currentKeyIdx, stats, keyFile, trace, calls, errLog,
                   budget, clock, keySnap, statsSnap,
                   uncredentialed, front>>

\* The upstream exchange, in progress while pc is "RoundTrip.exchange",
\* comes to an end.
RoundTripTransport(w) ==
    /\ reqs[w].pc = "RoundTrip.exchange"
    /\ \E x \in LockExchanges, l \in ConcurrentLatencies :
          reqs' = [reqs EXCEPT ![w].pc = "RoundTrip.stats",
                               ![w].outcome = x.outcome,
                               ![w].code = x.code,
                               ![w].latency = l]
    /\ UNCHANGED <<keys, currentKeyIdx, stats, keyFile, trace, calls, errLog,
                   budget, clock, keySnap, statsSnap,
                   uncredentialed, front>>

\* RoundTrip's global section: ps.stats.mu is locked, the statistics are
\* updated, ps.stats.mu is unlocked.
RoundTripGlobal(w) ==
    /\ reqs[w].pc = "RoundTrip.stats"
    /\ Free(StatsMu)
    /\ LET r == reqs[w] IN
        /\ stats' = RecordGlobalStats(stats, keys, r.cur, r.outcome, r.code,
                                      r.latency, clock)
        /\ clock' = IF Failed(r) THEN clock + 1 ELSE clock
        /\ errLog' = IF Failed(r)
                     THEN <<RoundTripErrorDetail(keys, r.cur, r.outcome, r.code,
                                                 clock)>> \o errLog
                     ELSE errLog
        /\ reqs' = [reqs EXCEPT
                      ![w].pc = IF r.cur # 0 THEN "RecordRequest.lock"
                                             ELSE "RoundTrip.exit",
                      ![w].nSucc = @ + (stats'.TotalSuccesses - stats.TotalSuccesses),
                      ![w].nFail = @ + (stats'.TotalFailures - stats.TotalFailures),
                      ![w].nErr = @ + (Len(errLog') - Len(errLog)),
                      ![w].nReq = @ + (stats'.TotalRequests - stats.TotalRequests)]
        /\ uncredentialed' = IF r.cur = 0 THEN uncredentialed + 1 ELSE uncredentialed
    /\ UNCHANGED <<keys, currentKeyIdx, keyFile, trace, calls, budget, keySnap,
                   statsSnap, front>>

\* RecordRequest locks the key and counts the request.
RecordRequestLock(w) ==
    /\ reqs[w].pc = "RecordRequest.lock"
    /\ Free(KeyMu(reqs[w].cur))
    /\ keys' = [keys EXCEPT ![reqs[w].cur].Requests = @ + 1]
    /\ reqs' = [reqs EXCEPT ![w].pc = "RecordRequest.count",
                            ![w].held = {KeyMu(reqs[w].cur)}]
    /\ UNCHANGED <<currentKeyIdx, stats, keyFile, trace, calls, errLog, budget,
                   clock, keySnap, statsSnap,
                   uncredentialed, front>>

\* RecordRequest counts the success or the failure.
RecordRequestCount(w) ==
    /\ reqs[w].pc = "RecordRequest.count"
    /\ LET r == reqs[w]
           isSuccess == r.outcome = "resp" /\ IsSuccessStatus(r.code)
       IN keys' = [keys EXCEPT
                     ![r.cur].Successes = IF isSuccess THEN @ + 1 ELSE @,
                     ![r.cur].Failures = IF isSuccess THEN @ ELSE @ + 1]
    /\ reqs' = [reqs EXCEPT ![w].pc = "RecordRequest.latency"]
    /\ UNCHANGED <<currentKeyIdx, stats, keyFile, trace, calls, errLog, budget,
                   clock, keySnap, statsSnap,
                   uncredentialed, front>>

\* RecordRequest adds the latency, recomputes the average and returns (the
\* deferred unlock runs).
RecordRequestLatency(w) ==
    /\ reqs[w].pc = "RecordRequest.latency"
    /\ LET r == reqs[w]
           isSuccess == r.outcome = "resp" /\ IsSuccessStatus(r.code)
           total == keys[r.cur].TotalLatencyMicroseconds + r.latency
       IN /\ keys' = [keys EXCEPT
                        ![r.cur].TotalLatencyMicroseconds = total,
                        ![r.cur].AverageLatencyMicroseconds =
                            IF keys[r.cur].Requests > 0
                            THEN total \div keys[r.cur].Requests ELSE @]
          /\ calls' = [calls EXCEPT ![r.cur].n = @ + 1,
                                    ![r.cur].ok = IF isSuccess THEN @ + 1 ELSE @,
                                    ![r.cur].lat = @ + r.latency]
    /\ reqs' = [reqs EXCEPT ![w].pc = "RoundTrip.exit", ![w].held = {}]
    /\ UNCHANGED <<currentKeyIdx, stats, keyFile, trace, errLog, budget, clock,
                   keySnap, statsSnap,
                   uncredentialed, front>>

\* RoundTrip returns: the deferred atomic.AddInt64(&ActiveConnections, -1)
\* runs; a transport error goes to the ErrorHandler.
RoundTripDefer(w) ==
    /\ reqs[w].pc = "RoundTrip.exit"
    /\ stats' = [stats EXCEPT !.ActiveConnections = @ - 1]
    /\ reqs' = [reqs EXCEPT ![w] =
                  IF reqs[w].outcome = "err"
                  THEN [@ EXCEPT !.pc = "ErrorHandler.lock"]
                  ELSE IdleRequest]
    /\ UNCHANGED <<keys, currentKeyIdx, keyFile, trace, calls, errLog, budget,
                   clock, keySnap, statsSnap,
                   uncredentialed, front>>

\* The ErrorHandler: ps.stats.mu is locked, the error is recorded,
\* ps.stats.mu is unlocked, and the 502 reply is written.
ErrorHandlerRecord(w) ==
    /\ reqs[w].pc = "ErrorHandler.lock"
    /\ Free(StatsMu)
    /\ stats' = ErrorHandlerStats(stats, clock)
    /\ clock' = clock + 1
    /\ errLog' = <<HandlerErrorDetail(clock)>> \o errLog
    /\ reqs' = [reqs EXCEPT ![w] = IdleRequest]
    /\ UNCHANGED <<keys, currentKeyIdx, keyFile, trace, calls, budget, keySnap,
                   statsSnap,
                   uncredentialed, front>>

\* SetKeyStatus that does not take km.mu.
SetKeyStatusLockNone(w) ==
    /\ Available(w)
    /\ budget.admin > 0
    /\ budget' = [budget EXCEPT !.admin = @ - 1]
    /\ \E k \in AdminKeys, b \in BOOLEAN :
          reqs' = [reqs EXCEPT ![w] =
                     IF FindKey(keys, k) = 0
                     THEN IdleRequest
                     ELSE [IdleRequest EXCEPT
                              !.pc = "Status.keylock", !.op = "SetKeyStatus",
                              !.i = FindKey(keys, k),
                              !.arg = k, !.flag = b]]
    /\ UNCHANGED <<keys, currentKeyIdx, stats, keyFile, trace, calls, errLog,
                   clock, keySnap, statsSnap,
                   uncredentialed, front>>

\* SetKeyStatus(k, b) is called: km.mu is locked and the keys are scanned for
\* k; if no key matches, the call returns an error (km.mu is unlocked).
SetKeyStatusLock(w) ==
    /\ Available(w)
    /\ budget.admin > 0
    /\ Free(KmMu)
    /\ budget' = [budget EXCEPT !.admin = @ - 1]
    /\ \E k \in AdminKeys, b \in BOOLEAN :
          reqs' = [reqs EXCEPT ![w] =
                     IF FindKey(keys, k) = 0
                     THEN IdleRequest
                     ELSE [IdleRequest EXCEPT
                              !.pc = "Status.keylock", !.op = "SetKeyStatus",
                              !.held = {KmMu}, !.i = FindKey(keys, k),
                              !.arg = k, !.flag = b]]
    /\ UNCHANGED <<keys, currentKeyIdx, stats, keyFile, trace, calls, errLog,
                   clock, keySnap, statsSnap,
                   uncredentialed, front>>

\* ToggleKeyStatus(k) is called: as SetKeyStatus, without the flag.
ToggleKeyStatusLock(w) ==
    /\ Available(w)
    /\ budget.admin > 0
    /\ Free(KmMu)
    /\ budget' = [budget EXCEPT !.admin = @ - 1]
    /\ \E k \in AdminKeys :
          reqs' = [reqs EXCEPT ![w] =
                     IF FindKey(keys, k) = 0
                     THEN IdleRequest
                     ELSE [IdleRequest EXCEPT
                              !.pc = "Status.keylock", !.op = "ToggleKeyStatus",
                              !.held = {KmMu}, !.i = FindKey(keys, k),
                              !.arg = k]]
    /\ UNCHANGED <<keys, currentKeyIdx, stats, keyFile, trace, calls, errLog,
                   clock, keySnap, statsSnap,
                   uncredentialed, front>>

\* SetKeyStatus and ToggleKeyStatus writing without the key's mutex.
StatusLockKeyNone(w) ==
    /\ reqs[w].pc = "Status.keylock"
    /\ reqs' = [reqs EXCEPT ![w].pc = "Status.enabled"]
    /\ UNCHANGED <<keys, currentKeyIdx, stats, keyFile, trace, calls, errLog,
                   budget, clock, keySnap, statsSnap,
                   uncredentialed, front>>

\* keyInfo.mu.Lock() in SetKeyStatus and ToggleKeyStatus.
StatusLockKey(w) ==
    /\ reqs[w].pc = "Status.keylock"
    /\ Free(KeyMu(reqs[w].i))
    /\ reqs' = [reqs EXCEPT ![w].pc = "Status.enabled",
                            ![w].held = @ \cup {KeyMu(reqs[w].i)}]
    /\ UNCHANGED <<keys, currentKeyIdx, stats, keyFile, trace, calls, errLog,
                   budget, clock, keySnap, statsSnap,
                   uncredentialed, front>>

\* keyInfo.Enabled is written.
StatusWriteEnabled(w) ==
    /\ reqs[w].pc = "Status.enabled"
    /\ keys' = [keys EXCEPT ![reqs[w].i].Enabled =
                   IF reqs[w].op = "SetKeyStatus" THEN reqs[w].flag ELSE ~@]
    /\ reqs' = [reqs EXCEPT ![w].pc = "Status.label"]
    /\ UNCHANGED <<currentKeyIdx, stats, keyFile, trace, calls, errLog, budget,
                   clock, keySnap, statsSnap,
                   uncredentialed, front>>

\* keyInfo.Status is written from keyInfo.Enabled, the key is unlocked and the
\* call returns (the deferred unlock of km.mu runs).
StatusWriteLabel(w) ==
    /\ reqs[w].pc = "Status.label"
    /\ keys' = [keys EXCEPT ![reqs[w].i].Status =
                   StatusLabel(keys[reqs[w].i].Enabled)]
    /\ reqs' = [reqs EXCEPT ![w] = IdleRequest]
    /\ UNCHANGED <<currentKeyIdx, stats, keyFile, trace, calls, errLog, budget,
                   clock, keySnap, statsSnap,
                   uncredentialed, front>>

\* GetKeyInfoSnapshot is called: km.mu is locked and infos is made.
SnapshotLock(w) ==
    /\ Available(w)
    /\ budget.admin > 0
    /\ Free(KmMu)
    /\ budget' = [budget EXCEPT !.admin = @ - 1]
    /\ reqs' = [reqs EXCEPT ![w] =
                  [IdleRequest EXCEPT !.pc = "Snapshot.keylock",
                                      !.op = "GetKeyInfoSnapshot",
                                      !.held = {KmMu}, !.i = 1]]
    /\ UNCHANGED <<keys, currentKeyIdx, stats, keyFile, trace, calls, errLog,
                   clock, keySnap, statsSnap,
                   uncredentialed, front>>

\* A GetKeyInfoSnapshot that copies a key without locking it.
SnapshotLockKeyNone(w) ==
    /\ reqs[w].pc = "Snapshot.keylock"
    /\ reqs' = [reqs EXCEPT ![w].pc = "Snapshot.copy"]
    /\ UNCHANGED <<keys, currentKeyIdx, stats, keyFile, trace, calls, errLog,
                   budget, clock, keySnap, statsSnap,
                   uncredentialed, front>>

\* keyInfo.mu.Lock() in the loop of GetKeyInfoSnapshot.
SnapshotLockKey(w) ==
    /\ reqs[w].pc = "Snapshot.keylock"
    /\ Free(KeyMu(reqs[w].i))
    /\ reqs' = [reqs EXCEPT ![w].pc = "Snapshot.copy",
                            ![w].held = @ \cup {KeyMu(reqs[w].i)}]
    /\ UNCHANGED <<keys, currentKeyIdx, stats, keyFile, trace, calls, errLog,
                   budget, clock, keySnap, statsSnap,
                   uncredentialed, front>>

\* The key is copied into infos and unlocked; after the last key infos is
\* returned (the deferred unlock of km.mu runs).
SnapshotCopy(w) ==
    /\ reqs[w].pc = "Snapshot.copy"
    /\ LET r == reqs[w]
           infos == Append(r.infos, GetKeyInfoSnapshot(keys)[r.i])
       IN IF r.i = Len(keys)
          THEN /\ keySnap' = infos
               /\ reqs' = [reqs EXCEPT ![w] = IdleRequest]
          ELSE /\ keySnap' = keySnap
               /\ reqs' = [reqs EXCEPT ![w] =
                             [r EXCEPT !.pc = "Snapshot.keylock",
                                       !.held = @ \ {KeyMu(r.i)},
                                       !.i = r.i + 1,
                                       !.infos = infos]]
    /\ UNCHANGED <<keys, currentKeyIdx, stats, keyFile, trace, calls, errLog,
                   budget, clock, statsSnap,
                   uncredentialed, front>>

\* A GetGlobalProxyStats that returns p.stats itself.
GetGlobalProxyStatsPointer(st) == [ref |-> TRUE, val |-> st]

\* GetGlobalProxyStats: a copy of the struct whose RecentErrors is a new slice
\* with the elements copied (ref: whether the value read through the result
\* is the live *p.stats).
GetGlobalProxyStats(st) == [ref |-> FALSE, val |-> st]

\* GetGlobalProxyStats is called: ps.stats.mu is locked.
GlobalStatsLock(w) ==
    /\ Available(w)
    /\ budget.admin > 0
    /\ Free(StatsMu)
    /\ budget' = [budget EXCEPT !.admin = @ - 1]
    /\ reqs' = [reqs EXCEPT ![w] =
                  [IdleRequest EXCEPT !.pc = "Stats.copy",
                                      !.op = "GetGlobalProxyStats",
                                      !.held = {StatsMu}]]
    /\ UNCHANGED <<keys, currentKeyIdx, stats, keyFile, trace, calls, errLog,
                   clock, keySnap, statsSnap,
                   uncredentialed, front>>

\* The struct, ActiveConnections included, and the errors are copied and
\* returned (the deferred unlock of ps.stats.mu runs).
GlobalStatsCopy(w) ==
    /\ reqs[w].pc = "Stats.copy"
    /\ statsSnap' = GetGlobalProxyStats(stats)
    /\ reqs' = [reqs EXCEPT ![w] = IdleRequest]
    /\ UNCHANGED <<keys, currentKeyIdx, stats, keyFile, trace, calls, errLog,
                   budget, clock, keySnap, uncredentialed, front>>

InitLocks == InitCommon(MaxServedKeys) /\ budget = [req |-> MaxLockOps, admin |-> MaxLockOps]

NextLocks ==
    \E w \in 1..NumWorkers :
        \/ GetKeyLock(w)
        \/ GetKeyLockKey(w)
        \/ GetKeyRead(w)
        \/ GetKeyCheck(w)
        \/ RoundTripEnter(w)
        \/ RoundTripFind(w)
        \/ RoundTripTransport(w)
        \/ RoundTripGlobal(w)
        \/ RecordRequestLock(w)
        \/ RecordRequestCount(w)
        \/ RecordRequestLatency(w)
        \/ RoundTripDefer(w)
        \/ ErrorHandlerRecord(w)
        \/ SetKeyStatusLock(w)
        \/ ToggleKeyStatusLock(w)
        \/ StatusLockKey(w)
        \/ StatusWriteEnabled(w)
        \/ StatusWriteLabel(w)
        \/ SnapshotLock(w)
        \/ SnapshotLockKey(w)
        \/ SnapshotCopy(w)
        \/ GlobalStatsLock(w)
        \/ GlobalStatsCopy(w)

SpecLocks == InitLocks /\ [][NextLocks]_vars

\* ------------------------------------------- the values handed to callers
\* A caller (the TUI, an API handler) calls GetGlobalProxyStats and keeps the
\* value it returns.
AdminGetGlobalProxyStats ==
    /\ budget.admin > 0
    /\ statsSnap' = GetGlobalProxyStats(stats)
    /\ budget' = [budget EXCEPT !.admin = @ - 1]
    /\ UNCHANGED <<keys, currentKeyIdx, stats, reqs, keyFile, trace, calls,
                   errLog, clock, keySnap, uncredentialed, front>>

\* What the caller sees in the value it was given.
ReturnedStats == IF statsSnap.ref THEN stats ELSE statsSnap.val

InitSnap == InitCommon(MaxServedKeys) /\ budget = [req |-> MaxRequests, admin |-> MaxStatusChanges]

NextSnap ==
    \/ Director(1)
    \/ RoundTripBegin(1)
    \/ RoundTripExchange(1, ConcurrentLatencies)
    \/ RecordKey(1)
    \/ RoundTripReturn(1)
    \/ ErrorHandler(1)
    \/ AdminToggleKeyStatus
    \/ AdminGetKeyInfoSnapshot
    \/ AdminGetGlobalProxyStats

SpecSnap == InitSnap /\ [][NextSnap]_vars

\* -------------------------------------------------------------- the startup
\* The process before main has made its KeyManager: no pool yet.
InitStartup ==
    /\ startup \in {[file |-> f, state |-> "init"] : f \in KeysFiles}
    /\ keys = <<>>
    /\ keyFile = <<>>
    /\ currentKeyIdx = 0
    /\ stats = InitStats
    /\ reqs = [w \in 1..NumWorkers |-> IdleRequest]
    /\ trace = <<>>
    /\ calls = <<>>
    /\ errLog = <<>>
    /\ budget = [req |-> 0, admin |-> 0]
    /\ clock = 0
    /\ keySnap = <<>>
    /\ statsSnap = [ref |-> FALSE, val |-> InitStats]
    /\ uncredentialed = 0
    /\ dashboard = NoDashboard
    /\ tui = NoSettingsList

\* main calls NewKeyManager on the keys file and stops (log.Fatalf) on an
\* error; otherwise the KeyManager is the one the proxy serves with.
Main ==
    /\ startup.state = "init"
    /\ LET r == NewKeyManagerOf(startup.file) IN
       /\ startup' = [startup EXCEPT !.state = IF r.err THEN "failed" ELSE "running"]
       /\ keys' = r.keys
       /\ keyFile' = r.rawKeys
       /\ calls' = [i \in 1..Len(r.rawKeys) |-> [n |-> 0, ok |-> 0, lat |-> 0]]
       /\ currentKeyIdx' = 0
    /\ UNCHANGED <<stats, reqs, trace, errLog, budget, clock, keySnap, statsSnap,
                   uncredentialed, dashboard, tui>>

NextStartup == Main

SpecStartup == InitStartup /\ [][NextStartup]_vars

\* ------------------------------------------------------------ the dashboard
\* An ApiKeyPerformanceItem of a snapshot entry.  SuccessRatePercent, the
\* float64 Successes / Requests * 100 (0 without requests), is kept as the
\* fraction <<Successes, Requests>> (<<0, 1>> without requests).
ApiKeyPerformanceItem(ki) ==
    [ KeyAlias |-> ki.Name,
      TotalRequests |-> ki.Requests,
      SuccessfulRequests |-> ki.Successes,
      FailedRequests |-> ki.Failures,
      AverageLatencyMicroseconds |-> ki.AverageLatencyMicroseconds,
      SuccessRatePercent |-> IF ki.Requests > 0 THEN <<ki.Successes, ki.Requests>>
                                                ELSE <<0, 1>>,
      IsEnabled |-> ki.Enabled ]

\* Comparison of two success rates.
RateBelow(a, b) ==
    a.SuccessRatePercent[1] * b.SuccessRatePercent[2]
        < b.SuccessRatePercent[1] * a.SuccessRatePercent[2]
RateEqual(a, b) == ~RateBelow(a, b) /\ ~RateBelow(b, a)

\* The less function of the first sort: higher success rate first, more
\* requests first for ties.
LessForTop(a, b) ==
    IF ~RateEqual(a, b) THEN RateBelow(b, a) ELSE a.TotalRequests > b.TotalRequests

\* The less function of the second sort: lower success rate first, fewer
\* requests first for ties.
LessForBottom(a, b) ==
    IF ~RateEqual(a, b) THEN RateBelow(a, b) ELSE a.TotalRequests < b.TotalRequests

\* sort.SliceStable with the first less function: each item goes before the
\* first one it is less than, so equal items keep their order.
RECURSIVE InsertForTop(_, _)
InsertForTop(x, sorted) ==
    IF sorted = <<>> THEN <<x>>
    ELSE IF LessForTop(x, Head(sorted)) THEN <<x>> \o sorted
    ELSE <<Head(sorted)>> \o InsertForTop(x, Tail(sorted))

RECURSIVE SortForTop(_, _)
SortForTop(items, sorted) ==
    IF items = <<>> THEN sorted
    ELSE SortForTop(Tail(items), InsertForTop(Head(items), sorted))

\* sort.SliceStable with the second less function.
RECURSIVE InsertForBottom(_, _)
InsertForBottom(x, sorted) ==
    IF sorted = <<>> THEN <<x>>
    ELSE IF LessForBottom(x, Head(sorted)) THEN <<x>> \o sorted
    ELSE <<Head(sorted)>> \o InsertForBottom(x, Tail(sorted))

RECURSIVE SortForBottom(_, _)
SortForBottom(items, sorted) ==
    IF items = <<>> THEN sorted
    ELSE SortForBottom(Tail(items), InsertForBottom(Head(items), sorted))

\* apiKeyPerfItems, or apiKeyPerfItems[:topN] when there are more than topN.
FirstTopN(items) == SubSeq(items, 1, IF Len(items) <= topN THEN Len(items) ELSE topN)

\* The APIKeyPerformance of the response.  topKeys is a slice of the array of
\* apiKeyPerfItems, not a copy: the second sort reorders that array in place,
\* so when the response is encoded topKeys shows the first items of the
\* second sort, as bottomKeys does.
DashboardHandler(keyInfos) ==
    LET apiKeyPerfItems == [i \in 1..Len(keyInfos) |-> ApiKeyPerformanceItem(keyInfos[i])]
        first == SortForTop(apiKeyPerfItems, <<>>)
        second == SortForBottom(first, <<>>)
    IN [ TopPerformingKeys |-> FirstTopN(second),
         BottomPerformingKeys |-> FirstTopN(second) ]

\* A client requests the dashboard.
DashboardRequest ==
    /\ budget.admin > 0
    /\ dashboard' = DashboardHandler(GetKeyInfoSnapshot(keys))
    /\ budget' = [budget EXCEPT !.admin = @ - 1]
    /\ UNCHANGED <<keys, currentKeyIdx, stats, reqs, keyFile, trace, calls,
                   errLog, clock, keySnap, statsSnap, uncredentialed, startup, tui>>

InitDashboard == InitCommon(MaxServedKeys) /\ budget = [req |-> MaxRequests, admin |-> MaxAdminOps]

NextDashboard ==
    \/ Director(1)
    \/ RoundTripBegin(1)
    \/ RoundTripExchange(1, ConcurrentLatencies)
    \/ RecordKey(1)
    \/ RoundTripReturn(1)
    \/ ErrorHandler(1)
    \/ DashboardRequest

SpecDashboard == InitDashboard /\ [][NextDashboard]_vars

\* A step of the call goroutine w is in: a Lock that returns because the mutex
\* is free, a read or write under the lock, the exchange, a return.
ContinueCall(w) ==
    \/ GetKeyLockKey(w)
    \/ GetKeyRead(w)
    \/ GetKeyCheck(w)
    \/ RoundTripEnter(w)
    \/ RoundTripFind(w)
    \/ RoundTripTransport(w)
    \/ RoundTripGlobal(w)
    \/ RecordRequestLock(w)
    \/ RecordRequestCount(w)
    \/ RecordRequestLatency(w)
    \/ RoundTripDefer(w)
    \/ ErrorHandlerRecord(w)
    \/ StatusLockKey(w)
    \/ StatusWriteEnabled(w)
    \/ StatusWriteLabel(w)
    \/ SnapshotLockKey(w)
    \/ SnapshotCopy(w)
    \/ GlobalStatsCopy(w)

\* The Go scheduler runs a goroutine that can run; nothing makes a new request
\* arrive or a new call start.
FairnessLocks == WF_vars(\E w \in 1..NumWorkers : ContinueCall(w))

\* The pools of one to MaxServedKeys distinct keys: a mutex belongs to a
\* position of the pool, whatever key string stands there.
InitLocksLive ==
    /\ InitWith({ [i \in 1..n |-> Secret(i)] : n \in 1..MaxServedKeys })
    /\ budget = [req |-> MaxLockOps, admin |-> MaxLockOps]

SpecLocksLive == InitLocksLive /\ [][NextLocks]_vars /\ FairnessLocks

\* ------------------------------------------------- TUI settings list and API
\* The most API key items one settings update carries.
MaxSettingsItems == 2

\* The checkboxes refreshAPIKeySettingsList builds from a snapshot: one for
\* every key, holding the key string its callback captured and checked as the
\* key was enabled in the snapshot.
SettingsList(keyInfos) ==
    [ checkboxes |-> [ i \in 1..Len(keyInfos) |->
                         [ Key |-> keyInfos[i].Key,
                           checked |-> keyInfos[i].Enabled ] ],
      clicked |-> 0,
      checked |-> FALSE ]

\* refreshAPIKeySettingsList: the list is cleared and rebuilt from
\* GetKeyInfoSnapshot (on selecting the settings page, and queued by the
\* callback of a checkbox after its click).
refreshAPIKeySettingsList ==
    /\ tui' = SettingsList(GetKeyInfoSnapshot(keys))
    /\ UNCHANGED <<keys, currentKeyIdx, stats, reqs, keyFile, trace, calls,
                   errLog, budget, clock, keySnap, statsSnap, uncredentialed,
                   startup, dashboard>>

\* The user clicks checkbox i: the checkbox flips and its callback runs with
\* the new state, which it does not look at: it calls ToggleKeyStatus on the
\* key string it captured.  The refresh it asks for is queued and runs as
\* refreshAPIKeySettingsList.
CheckboxChanged(i) ==
    /\ budget.admin > 0
    /\ i \in 1..Len(tui.checkboxes)
    /\ LET checked == ~tui.checkboxes[i].checked IN
       /\ keys' = ToggleKeyStatus(keys, tui.checkboxes[i].Key).keys
       /\ tui' = [ checkboxes |-> [tui.checkboxes EXCEPT ![i].checked = checked],
                   clicked |-> i,
                   checked |-> checked ]
    /\ budget' = [budget EXCEPT !.admin = @ - 1]
    /\ UNCHANGED <<currentKeyIdx, stats, reqs, keyFile, trace, calls, errLog,
                   clock, keySnap, statsSnap, uncredentialed, startup,
                   dashboard>>

\* The API key items a settings update may carry: a key of the pool, a
\* stranger or no key string, to be enabled or disabled.
ApiKeySettingItems == [ Key : AdminKeys \cup {NoKey}, IsEnabled : BOOLEAN ]

\* The loop of UpdateSettingsHandler over the items from the n-th on: an item
\* without a key string is skipped, the others go to SetKeyStatus, whose error
\* is collected and does not stop the loop.
RECURSIVE ApplyAPIKeys(_, _, _)
ApplyAPIKeys(ks, items, n) ==
    IF n > Len(items)
    THEN ks
    ELSE ApplyAPIKeys(IF items[n].Key = NoKey
                      THEN ks
                      ELSE SetKeyStatus(ks, items[n].Key, items[n].IsEnabled).keys,
                      items, n + 1)

\* A settings update (POST /api/v1/settings) whose body decodes and whose
\* global settings are valid, carrying a list of API key items.
UpdateSettingsHandler ==
    /\ budget.admin > 0
    /\ \E n \in 0..MaxSettingsItems : \E items \in [1..n -> ApiKeySettingItems] :
          keys' = ApplyAPIKeys(keys, items, 1)
    /\ budget' = [budget EXCEPT !.admin = @ - 1]
    /\ UNCHANGED <<currentKeyIdx, stats, reqs, keyFile, trace, calls, errLog,
                   clock, keySnap, statsSnap, uncredentialed, front>>

\* The TUI and the settings API of one process, no proxied request.
InitTui == InitCommon(MaxKeys) /\ budget = [req |-> 0, admin |-> MaxStatusChanges]

NextTui ==
    \/ refreshAPIKeySettingsList
    \/ \E i \in 1..MaxKeys : CheckboxChanged(i)
    \/ UpdateSettingsHandler

SpecTui == InitTui /\ [][NextTui]_vars

\* ------------------------------------------------ properties of the rotation
Last(s) == s[Len(s)]
Min(a, b) == IF a < b THEN a ELSE b
AllDisabled(ks) == \A i \in 1..Len(ks) : ~ks[i].Enabled
\* A GetKey call has just returned (SpecPool appends every call to trace).
GetKeyReturns == trace' # trace /\ Last(trace').op = "GetKey"

\* The first enabled key met when scanning circularly from cursor cur.
FirstEnabledFrom(ks, cur) ==
    LET N == Len(ks)
        d == CHOOSE d \in 0..(N-1) :
                /\ ks[((cur + d) % N) + 1].Enabled
                /\ \A e \in 0..(d-1) : ~ks[((cur + e) % N) + 1].Enabled
    IN ((cur + d) % N) + 1

\* C1: whenever at least one key is enabled, GetKey returns the first enabled
\* key found scanning circularly from the cursor, and leaves the cursor at
\* (index of the returned key + 1) mod N.
C1_GetKeyFirstEnabled ==
    [][ (GetKeyReturns /\ ~AllDisabled(keys)) =>
          /\ Last(trace').ret = FirstEnabledFrom(keys, currentKeyIdx)
          /\ currentKeyIdx' = ((Last(trace').ret - 1) + 1) % Len(keys) ]_vars

\* C1 witness: a call that skipped a disabled key and wrapped around the end
\* of the pool has returned.
C1_Witness ==
    /\ trace # <<>>
    /\ Last(trace).op = "GetKey"
    /\ Last(trace).ret # 0
    /\ Last(trace).ret - 1 < Last(trace).at
    /\ ~keys[Last(trace).at + 1].Enabled
    /\ currentKeyIdx = Last(trace).ret % Len(keys)

\* C2: with all N keys enabled, N consecutive GetKey calls return every key
\* exactly once, in pool order starting from the cursor at the first call.
C2_RoundRobinFairness ==
    LET N == Len(keys)
        L == Len(trace)
    IN  ( /\ L >= N
          /\ \A j \in (L-N+1)..L : trace[j].op = "GetKey"
          /\ \A i \in 1..N : keys[i].Enabled )
        => /\ \A j \in 1..N :
                trace[L-N+j].ret = ((trace[L-N+1].at + j - 1) % N) + 1
           /\ {trace[j].ret : j \in (L-N+1)..L} = 1..N
           /\ \A j, m \in (L-N+1)..L : j # m => trace[j].ret # trace[m].ret

\* C2 witness: three keys, all enabled, three consecutive calls that started in
\* the middle of the pool.
C2_Witness ==
    /\ Len(keys) = 3
    /\ Len(trace) >= 3
    /\ \A j \in (Len(trace)-2)..Len(trace) : trace[j].op = "GetKey"
    /\ \A i \in 1..3 : keys[i].Enabled
    /\ trace[Len(trace)-2].at = 1

\* The end-to-end example: five selections, disable B, two selections,
\* re-enable B, one selection.
ExampleScript ==
    << [op |-> "GetKey", arg |-> NoKey, flag |-> FALSE],
       [op |-> "GetKey", arg |-> NoKey, flag |-> FALSE],
       [op |-> "GetKey", arg |-> NoKey, flag |-> FALSE],
       [op |-> "GetKey", arg |-> NoKey, flag |-> FALSE],
       [op |-> "GetKey", arg |-> NoKey, flag |-> FALSE],
       [op |-> "SetKeyStatus", arg |-> Secret(2), flag |-> FALSE],
       [op |-> "GetKey", arg |-> NoKey, flag |-> FALSE],
       [op |-> "GetKey", arg |-> NoKey, flag |-> FALSE],
       [op |-> "SetKeyStatus", arg |-> Secret(2), flag |-> TRUE],
       [op |-> "GetKey", arg |-> NoKey, flag |-> FALSE] >>
\* A, B, C, A, B, -, C, A, -, B as pool positions.
ExampleReturns == <<1, 2, 3, 1, 2, 0, 3, 1, 0, 2>>
ExamplePool == <<Secret(1), Secret(2), Secret(3)>>
FollowsExample(tr) ==
    \A j \in 1..Min(Len(tr), Len(ExampleScript)) :
        /\ tr[j].op = ExampleScript[j].op
        /\ tr[j].arg = ExampleScript[j].arg
        /\ tr[j].flag = ExampleScript[j].flag

\* C3: on a fresh pool [A,B,C], five GetKey calls return A,B,C,A,B; after
\* disabling B the next two return C,A; after re-enabling B the next returns B.
C3_EndToEndExample ==
    (keyFile = ExamplePool /\ FollowsExample(trace)) =>
        \A j \in 1..Min(Len(trace), Len(ExampleScript)) :
            /\ ExampleScript[j].op = "GetKey" =>
                 /\ trace[j].ret = ExampleReturns[j]
                 /\ keys[trace[j].ret].Key = ExamplePool[ExampleReturns[j]]
            /\ ExampleScript[j].op # "GetKey" => trace[j].ret = 1

\* C3 witness: the whole example has been run.
C3_Witness ==
    /\ keyFile = ExamplePool
    /\ Len(trace) >= Len(ExampleScript)
    /\ FollowsExample(trace)

\* The key returned by the latest successful GetKey call of tr, 0 if none.
PrevRet(tr) ==
    LET S == {j \in 1..Len(tr) : tr[j].op = "GetKey" /\ tr[j].ret # 0} IN
    IF S = {} THEN 0
    ELSE tr[CHOOSE j \in S : \A m \in S : m <= j].ret

\* Pool positions strictly between p and r in rotation order.
Between(p, r, N) ==
    LET dist == ((r - p - 1 + N) % N) + 1 IN
    { ((p - 1 + d) % N) + 1 : d \in 1..(dist - 1) }

\* C4: GetKey never returns a key that is disabled when the call starts, and
\* the key it returns is the next enabled one in pool order after the key
\* returned before: a re-enabled key is served again at its own pool position,
\* between the same neighbours.
C4_SkipDisabled ==
    [][ (GetKeyReturns /\ Last(trace').ret # 0) =>
          LET r == Last(trace').ret
              p == PrevRet(trace)
          IN /\ keys[r].Enabled
             /\ p # 0 => \A j \in Between(p, r, Len(keys)) : ~keys[j].Enabled ]_vars

\* C4 witness: a key of a three-key pool was disabled, a call skipped it, it
\* was re-enabled, and it is returned again right after its predecessor.
C4_Witness ==
    /\ Len(keys) = 3
    /\ \E a, b, c, d \in 1..Len(trace) :
        /\ a < b /\ b < c /\ c < d /\ d + 1 = Len(trace)
        /\ trace[a].op = "SetKeyStatus" /\ trace[a].arg = Secret(2)
        /\ ~trace[a].flag /\ trace[a].ret = 1
        /\ trace[b].op = "GetKey" /\ trace[b].ret = 3 /\ trace[b].at = 1
        /\ trace[c].op = "SetKeyStatus" /\ trace[c].arg = Secret(2)
        /\ trace[c].flag /\ trace[c].ret = 1
        /\ trace[d].op = "GetKey" /\ trace[d].ret = 1
        /\ Last(trace).op = "GetKey" /\ Last(trace).ret = 2
    /\ keyFile = ExamplePool

\* C5: when every key is disabled GetKey returns nil and leaves the cursor
\* where it was, call after call; nil is returned in no other case, so the
\* caller can tell exhaustion from a selection.
C5_Exhaustion ==
    [][ GetKeyReturns =>
          /\ AllDisabled(keys) =>
                (Last(trace').ret = 0 /\ currentKeyIdx' = currentKeyIdx)
          /\ Last(trace').ret = 0 => AllDisabled(keys)
          /\ Last(trace').ret # 0 => Last(trace').ret \in 1..Len(keys) ]_vars

\* C5 witness: two consecutive calls on a pool of two disabled keys returned
\* nil, with the cursor in the middle of the pool.
C5_Witness ==
    /\ Len(keys) = 2
    /\ AllDisabled(keys)
    /\ Len(trace) >= 2
    /\ Last(trace).op = "GetKey" /\ Last(trace).ret = 0
    /\ trace[Len(trace)-1].op = "GetKey" /\ trace[Len(trace)-1].ret = 0
    /\ trace[Len(trace)-1].at = 1
    /\ currentKeyIdx = 1

\* --------------------------------------------- properties of the statistics
\* C6: the cursor is always a valid index into km.keys, and the pool keeps the
\* length, the order and the key strings it was constructed with.
C6_CursorAndPoolStable ==
    /\ currentKeyIdx >= 0
    /\ currentKeyIdx < Len(keys)
    /\ Len(keys) = Len(keyFile)
    /\ \A i \in 1..Len(keys) : keys[i].Key = keyFile[i]

\* C6 witness: in a pool of two keys the first was disabled, the second was
\* selected and recorded, and the cursor wrapped to the start.
C6_Witness ==
    /\ Len(keys) = 2
    /\ ~keys[1].Enabled
    /\ keys[2].Requests > 0
    /\ currentKeyIdx = 0

InFlight == \E w \in 1..NumWorkers : reqs[w].pc # "idle"

\* C7: TotalFailures + TotalSuccesses never exceeds TotalRequests, and equals
\* it once no request is in flight, whatever the outcomes of the exchanges.
C7_GlobalConservation ==
    /\ stats.TotalFailures + stats.TotalSuccesses <= stats.TotalRequests
    /\ ~InFlight => stats.TotalFailures + stats.TotalSuccesses = stats.TotalRequests

\* C8: over its whole handling, a request that fails raises TotalFailures by
\* exactly one and inserts exactly one ErrorDetail, and a request that succeeds
\* raises TotalSuccesses by exactly one and inserts none.
C8_OneRecordPerRequest ==
    [][ \A w \in 1..NumWorkers :
          (reqs[w].pc # "idle" /\ reqs'[w].pc = "idle") =>
            LET nF == reqs[w].nFail + (stats'.TotalFailures - stats.TotalFailures)
                nS == reqs[w].nSucc + (stats'.TotalSuccesses - stats.TotalSuccesses)
                nE == reqs[w].nErr + (Len(errLog') - Len(errLog))
            IN IF Failed(reqs[w])
               THEN nF = 1 /\ nE = 1 /\ nS = 0
               ELSE nS = 1 /\ nF = 0 /\ nE = 0 ]_vars

\* C9: after K insertions RecentErrors holds the min(K, MaxRecentErrors) most
\* recently inserted ErrorDetails, newest first; older ones are gone and the
\* length never exceeds MaxRecentErrors.
C9_ErrorRingBound ==
    LET K == Len(errLog)
        n == Min(K, MaxRecentErrors)
        ring == stats.RecentErrors
    IN /\ Len(ring) <= MaxRecentErrors
       /\ Len(ring) = n
       /\ \A i \in 1..n : ring[i] = errLog[i]
       /\ \A i, j \in 1..Len(ring) : i < j => ring[i].Timestamp > ring[j].Timestamp
       /\ \A j \in (MaxRecentErrors + 1)..K :
            \A i \in 1..Len(ring) : ring[i] # errLog[j]

\* C9 witness: more than MaxRecentErrors insertions, from RoundTrip (both a
\* status failure and a transport error) and from the ErrorHandler.
C9_Witness ==
    /\ Len(errLog) > MaxRecentErrors
    /\ Len(stats.RecentErrors) = MaxRecentErrors
    /\ \E i \in 1..MaxRecentErrors :
          stats.RecentErrors[i].SourceID = "ProxyErrorHandler"
    /\ \E i \in 1..MaxRecentErrors :
          stats.RecentErrors[i].ErrorType = <<"HTTP", 404>>
    /\ \E i \in 1..Len(errLog) : errLog[i].ErrorType = <<"TransportError">>

\* C10: after M RecordRequest calls on a key its Requests is M, its
\* Successes + Failures is M, and its Successes is the number of calls made
\* with success = true.
C10_KeyConservation ==
    \A i \in 1..Len(keys) :
        /\ keys[i].Requests = calls[i].n
        /\ keys[i].Successes + keys[i].Failures = calls[i].n
        /\ keys[i].Successes = calls[i].ok

\* C10 witness: a key has recorded two requests, one success and one failure.
C10_Witness ==
    \E i \in 1..Len(keys) :
        /\ calls[i].n = 2
        /\ calls[i].ok = 1
        /\ keys[i].Failures = 1

\* ------------------------------------------------- properties of the pipeline
RECURSIVE SumRequests(_, _)
SumRequests(ks, n) == IF n = 0 THEN 0 ELSE ks[n].Requests + SumRequests(ks, n - 1)

\* No SetKeyStatus, ToggleKeyStatus or GetKeyInfoSnapshot call was made yet.
NoAdminCall == budget.admin = MaxAdminOps

\* C11: when goroutines serve requests concurrently on a pool whose keys all
\* stay enabled, then once every request has completed the Requests of all the
\* keys add up to TotalRequests.
C11_RequestsAddUp ==
    (~InFlight /\ NoAdminCall) => SumRequests(keys, Len(keys)) = stats.TotalRequests

\* C11 witness: two requests, one on each key of a two-key pool, one of them
\* failed, have completed.
C11_Witness ==
    /\ ~InFlight /\ NoAdminCall
    /\ Len(keys) = 2
    /\ keys[1].Requests = 1 /\ keys[2].Requests = 1
    /\ keys[1].Failures + keys[2].Failures = 1
    /\ stats.TotalRequests = 2

\* The goroutines inside RoundTrip: after the increment, before the deferred
\* decrement.
InRoundTrip == {w \in 1..NumWorkers : reqs[w].pc \in {"exchange", "recordkey", "return"}}

\* C12: ActiveConnections is the number of RoundTrip calls that have started
\* and not returned; it is never negative and is 0 when there is none.
C12_ActiveConnections ==
    /\ stats.ActiveConnections = Cardinality(InRoundTrip)
    /\ stats.ActiveConnections >= 0
    /\ InRoundTrip = {} => stats.ActiveConnections = 0

\* C12 witness: a RoundTrip that ended in a transport error has returned while
\* another one is still in its exchange.
C12_Witness ==
    /\ stats.ActiveConnections = 1
    /\ \E w \in 1..NumWorkers : reqs[w].pc = "errorhandler"
    /\ \E w \in 1..NumWorkers : reqs[w].pc = "exchange"

\* C13: a RoundTrip call whose exchange terminates reaches the classification,
\* has added exactly one to TotalRequests when it returns, and decrements
\* ActiveConnections exactly once, on returning.
C13_RoundTripCompletes ==
    /\ \A w \in 1..NumWorkers :
         (reqs[w].pc = "exchange") ~>
             (reqs[w].pc \in {"recordkey", "return"} /\ reqs[w].nReq = 1)
    /\ \A w \in 1..NumWorkers :
         (reqs[w].pc \in {"recordkey", "return"}) ~>
             (reqs[w].pc \in {"idle", "errorhandler"})
    /\ [][ \A w \in 1..NumWorkers :
             /\ (reqs[w].pc = "return" /\ reqs'[w].pc # "return") =>
                   /\ reqs[w].nReq = 1
                   /\ stats'.ActiveConnections = stats.ActiveConnections - 1
             /\ (reqs[w].pc \in {"exchange", "recordkey"} /\ reqs'[w] # reqs[w]) =>
                   stats'.ActiveConnections = stats.ActiveConnections ]_vars

\* C13 witness: a RoundTrip whose exchange failed has been counted and has
\* returned, leaving no connection active.
C13_Witness ==
    /\ \E w \in 1..NumWorkers :
          reqs[w].pc = "errorhandler" /\ reqs[w].nReq = 1 /\ reqs[w].cur # 0
    /\ stats.ActiveConnections = 0
    /\ stats.TotalRequests = 1

\* C14: RoundTrip counts an exchange as a success exactly when it returned no
\* error and a status code in [200,300); it records a transport error with
\* ErrorType "TransportError" and any other status code as a failure whose
\* ErrorDetail carries that code; and the record on the request's key gets the
\* same verdict as the global record.
C14_Classification ==
    [][ \A w \in 1..NumWorkers :
          /\ (reqs[w].pc = "exchange" /\ reqs'[w].pc # "exchange") =>
                LET x == reqs'[w]
                    ok == x.outcome = "resp" /\ x.code \in 200..299
                IN
                /\ stats'.TotalSuccesses - stats.TotalSuccesses = IF ok THEN 1 ELSE 0
                /\ stats'.TotalFailures - stats.TotalFailures = IF ok THEN 0 ELSE 1
                /\ ok => stats'.RecentErrors = stats.RecentErrors
                /\ ~ok =>
                      /\ Len(stats'.RecentErrors) = Min(Len(stats.RecentErrors) + 1,
                                                        MaxRecentErrors)
                      /\ stats'.RecentErrors[1].ErrorType =
                            IF x.outcome = "err" THEN <<"TransportError">>
                                                 ELSE <<"HTTP", x.code>>
          /\ (reqs[w].pc = "recordkey" /\ reqs'[w].pc # "recordkey") =>
                LET c == reqs[w].cur IN
                /\ keys'[c].Requests = keys[c].Requests + 1
                /\ keys'[c].Successes - keys[c].Successes = reqs[w].nSucc
                /\ keys'[c].Failures - keys[c].Failures = reqs[w].nFail ]_vars

\* C14 witness: a response with status 300 was recorded as a failure carrying
\* that code, and a response with status 299 has then been recorded as a
\* success both globally and on its key.
C14_Witness ==
    /\ stats.TotalSuccesses = 1
    /\ stats.TotalFailures = 1
    /\ Len(stats.RecentErrors) = 1
    /\ stats.RecentErrors[1].ErrorType = <<"HTTP", 300>>
    /\ \E w \in 1..NumWorkers :
          /\ reqs[w].pc = "return"
          /\ reqs[w].code = 299
          /\ reqs[w].nSucc = 1
          /\ keys[reqs[w].cur].Successes = 1

\* The counters of every key of the pool.
KeyCounters(ks) ==
    [ i \in 1..Len(ks) |->
        <<ks[i].Requests, ks[i].Successes, ks[i].Failures,
          ks[i].TotalLatencyMicroseconds, ks[i].AverageLatencyMicroseconds>> ]

\* C15: no step of a request for which GetKey returned nil in the Director
\* changes the counters of any key, whatever the inbound request carried.
C15_FailedSelectionTouchesNoKey ==
    [][ \A w \in 1..NumWorkers :
          (reqs[w].pc # "idle" /\ reqs[w].sel = 0 /\ reqs'[w] # reqs[w]) =>
              KeyCounters(keys') = KeyCounters(keys) ]_vars

\* C16: a request for which GetKey returned nil in the Director goes upstream
\* with no Authorization header and no "key" query parameter.
C16_FailedSelectionNoCredential ==
    \A w \in 1..NumWorkers :
        (reqs[w].pc \in {"roundtrip", "exchange"} /\ reqs[w].sel = 0) =>
            (~reqs[w].auth /\ reqs[w].key = NoKey)

\* C18: the APIKeyInfo RoundTrip looks up for a request, whose statistics it
\* updates and whose name it puts in the ErrorDetail, is the one GetKey
\* returned to the Director for that request.
C18_RecordOnAttachedKey ==
    \A w \in 1..NumWorkers :
        (reqs[w].pc \in {"exchange", "recordkey", "return"} /\ reqs[w].sel # 0) =>
            reqs[w].cur = reqs[w].sel

\* C17: when GetKey returned a key to the Director, the outbound request has
\* no Authorization header, its "key" query parameter is that key's secret
\* whatever the inbound request carried, and its path is the inbound path.
C17_SelectedKeyAttached ==
    [][ \A w \in 1..NumWorkers :
          (reqs[w].pc = "idle" /\ reqs'[w].pc = "roundtrip" /\ reqs'[w].sel # 0) =>
              LET inbound == Last(trace').inbound
                  out == reqs'[w]
              IN /\ ~out.auth
                 /\ out.key = keys[out.sel].Key
                 /\ out.path = inbound.path ]_vars

\* C17 witness: a request that came with an Authorization header, a key of
\* its own and the path /m leaves the Director with the second key of the
\* pool attached.
C17_Witness ==
    /\ reqs[1].pc = "roundtrip"
    /\ reqs[1].sel = 2
    /\ trace # <<>>
    /\ Last(trace).op = "Director"
    /\ Last(trace).inbound = [key |-> UnknownKey, auth |-> TRUE, path |-> <<"/", "m">>]
    /\ reqs[1].key = keys[2].Key
    /\ reqs[1].key # keys[1].Key
    /\ reqs[1].path = <<"/", "m">>

\* A status change (SetKeyStatus or ToggleKeyStatus) has just returned; in
\* SpecWide trace' describes it.
StatusChangeReturns == budget'.admin # budget.admin

\* C19: SetKeyStatus and ToggleKeyStatus called with a string that is the
\* secret of no key return an error and leave every key (flag, label and
\* counters) and the cursor as they were.
C19_UnknownKeyRejected ==
    [][ (StatusChangeReturns
           /\ \A i \in 1..Len(keys) : keys[i].Key # Last(trace').arg) =>
          /\ Last(trace').err
          /\ keys' = keys
          /\ currentKeyIdx' = currentKeyIdx ]_vars

\* C19 witness: SetKeyStatus was called with the masked name of a long key,
\* which is no key's secret, and returned an error, in a pool whose first key
\* has served a request and whose cursor has moved.
C19_Witness ==
    /\ trace # <<>>
    /\ Last(trace).op = "SetKeyStatus"
    /\ Last(trace).arg = KeyName(keys[1].Key)
    /\ Last(trace).arg # keys[1].Key
    /\ Last(trace).err
    /\ keys[1].Requests = 1
    /\ keys[1].Enabled
    /\ currentKeyIdx = 1

\* C20: SetKeyStatus(secret, b) sets the flag of every key whose secret is
\* the argument to b and leaves the flag of every other key, a key with the
\* same masked name included, as it was.
C20_SetKeyStatusBySecret ==
    [][ (StatusChangeReturns /\ Last(trace').op = "SetKeyStatus") =>
          \A i \in 1..Len(keys) :
              keys'[i].Enabled = IF keys[i].Key = Last(trace').arg
                                 THEN Last(trace').flag
                                 ELSE keys[i].Enabled ]_vars

RECURSIVE SumLatencies(_, _)
SumLatencies(cs, n) == IF n = 0 THEN 0 ELSE cs[n].lat + SumLatencies(cs, n - 1)

\* C28: once an outcome is recorded, the stored average latency is the integer
\* quotient of the cumulative latency by the number of requests, globally and
\* on every key; the cumulative latency of a key is the sum of the latencies
\* recorded on it, and the global one is the sum over all the requests once
\* none is being served.
C28_AverageIsQuotient ==
    /\ stats.TotalRequests > 0 =>
          stats.OverallAverageLatencyMicroseconds =
              stats.totalLatencyForAverage \div stats.TotalRequests
    /\ \A i \in 1..Len(keys) :
          /\ keys[i].TotalLatencyMicroseconds = calls[i].lat
          /\ keys[i].Requests > 0 =>
                keys[i].AverageLatencyMicroseconds =
                    keys[i].TotalLatencyMicroseconds \div keys[i].Requests
    /\ ~InFlight => stats.totalLatencyForAverage = SumLatencies(calls, Len(calls))

\* C28 witness: latencies of 1 and 4 microseconds were recorded on the same
\* key, whose average is 2, as is the global one.
C28_Witness ==
    /\ ~InFlight
    /\ Len(keys) = 1
    /\ keys[1].Requests = 2
    /\ keys[1].TotalLatencyMicroseconds = 5
    /\ keys[1].AverageLatencyMicroseconds = 2
    /\ stats.TotalRequests = 2
    /\ stats.OverallAverageLatencyMicroseconds = 2

\* C29: a request that has left the Director makes no further GetKey call
\* (the cursor does not move in any of its steps, and the key attached stays
\* the same), has at most one exchange, and after its exchange never goes back
\* to an exchange, whether the exchange failed or not.
C29_NoRetry ==
    [][ \A w \in 1..NumWorkers :
          (reqs[w].pc # "idle" /\ reqs'[w] # reqs[w]) =>
              /\ currentKeyIdx' = currentKeyIdx
              /\ reqs'[w].pc # "idle" =>
                    /\ reqs'[w].sel = reqs[w].sel
                    /\ reqs'[w].key = reqs[w].key
                    /\ reqs'[w].nReq >= reqs[w].nReq
              /\ reqs'[w].nReq <= 1
              /\ reqs[w].pc \notin {"roundtrip", "exchange"} =>
                    reqs'[w].pc \notin {"roundtrip", "exchange"} ]_vars

\* C29 witness: on a pool of two keys, the only request so far failed with a
\* transport error and has been handled to the end: the cursor moved once and
\* the second key was never used.
C29_Witness ==
    /\ ~InFlight
    /\ Len(keys) = 2
    /\ budget.req = MaxRequests - 1
    /\ stats.TotalRequests = 1
    /\ stats.RecentErrors # <<>>
    /\ stats.RecentErrors[1].ErrorType = <<"ProxyError">>
    /\ currentKeyIdx = 1
    /\ keys[1].Failures = 1
    /\ keys[2].Requests = 0

\* C30: the reply written for a request whose exchange failed with a
\* transport error has status 502; the reply written for an upstream response
\* has the status of that response, and if that status is outside [200,300)
\* the request has added an ErrorDetail carrying it.
C30_ClientReply ==
    \A w \in 1..NumWorkers :
        reqs[w].pc = "done" =>
            /\ reqs[w].outcome = "err" => reqs[w].reply = 502
            /\ reqs[w].outcome = "resp" =>
                  /\ reqs[w].reply = reqs[w].code
                  /\ reqs[w].code \notin 200..299 =>
                        /\ reqs[w].nErr = 1
                        /\ \E i \in 1..Len(stats.RecentErrors) :
                              stats.RecentErrors[i].ErrorType =
                                  <<"HTTP", reqs[w].code>>

\* C30 witness: the first request failed with a transport error and was
\* answered; the second one, served afterwards, has been answered with the
\* upstream's 404.
C30_Witness ==
    /\ reqs[1].pc = "done"
    /\ reqs[1].outcome = "resp"
    /\ reqs[1].reply = 404
    /\ stats.TotalRequests = 2
    /\ Len(stats.RecentErrors) = 3
    /\ stats.RecentErrors[1].ErrorType = <<"HTTP", 404>>
    /\ stats.RecentErrors[2].ErrorType = <<"ProxyError">>
    /\ stats.RecentErrors[3].ErrorType = <<"TransportError">>

\* C22: a goroutine whose upstream exchange is in progress holds no mutex
\* (neither km.mu, nor a key's, nor ps.stats.mu).
C22_NoLockDuringExchange ==
    \A w \in 1..NumWorkers :
        reqs[w].pc = "RoundTrip.exchange" => reqs[w].held = {}

\* C22 witness: the exchange of a request that was given a key is in progress
\* while another goroutine, changing the status of a key, holds km.mu and the
\* mutex of that key.
C22_Witness ==
    \E w, v \in 1..NumWorkers :
        /\ reqs[w].pc = "RoundTrip.exchange"
        /\ reqs[w].cur # 0
        /\ reqs[w].held = {}
        /\ reqs[v].pc = "Status.enabled"
        /\ reqs[v].held = {KmMu, KeyMu(reqs[w].cur)}

\* C23: no goroutine ever holds two mutexes at once.
C23_NoNestedLocks ==
    \A w \in 1..NumWorkers : Cardinality(reqs[w].held) <= 1

\* The goroutine has a key from GetKey and has not finished its request.
HasKey(w) ==
    reqs[w].op = "Director" /\ reqs[w].pc \notin {"idle", "GetKey.keylock", "GetKey.read", "GetKey.check"}

\* C24: with every key enabled, no status change, and no more GetKey calls
\* made than there are keys, the requests being served were given pairwise
\* distinct keys.
C24_ConcurrentGetKeyDistinct ==
    (/\ budget.admin = MaxLockOps
     /\ MaxLockOps - budget.req <= Len(keys)) =>
        \A w, v \in 1..NumWorkers :
            (w # v /\ HasKey(w) /\ HasKey(v)) =>
                /\ reqs[w].sel # 0
                /\ reqs[w].sel # reqs[v].sel

\* C24 witness: two goroutines called GetKey on a pool of two keys before
\* either started its RoundTrip, and hold the first and the second key.
C24_Witness ==
    /\ Len(keys) = 2
    /\ budget.admin = MaxLockOps
    /\ reqs[1].pc = "RoundTrip.enter"
    /\ reqs[2].pc = "RoundTrip.enter"
    /\ {reqs[1].sel, reqs[2].sel} = {1, 2}
    /\ currentKeyIdx = 0

\* An entry of a snapshot is consistent in itself.
EntryConsistent(e) ==
    /\ e.Successes + e.Failures = e.Requests
    /\ e.Status = StatusLabel(e.Enabled)
    /\ e.Requests = 0 => e.AverageLatencyMicroseconds = 0

\* C25: every entry GetKeyInfoSnapshot copies is that of the key at its
\* position in the pool, as the RecordRequest calls completed on that key and
\* the status changes left it: Successes + Failures = Requests, the average is
\* the one of these Requests, and the label agrees with the flag.
C25_SnapshotEntriesConsistent ==
    /\ [](/\ \A j \in 1..Len(keySnap) : EntryConsistent(keySnap[j])
          /\ Len(keySnap) \in {0, Len(keys)}
          /\ \A w \in 1..NumWorkers : \A j \in 1..Len(reqs[w].infos) :
                /\ EntryConsistent(reqs[w].infos[j])
                /\ reqs[w].infos[j].Key = keys[j].Key)
    /\ [][ \A w \in 1..NumWorkers :
             (reqs[w].pc = "Snapshot.copy" /\ reqs'[w] # reqs[w]) =>
                 LET i == reqs[w].i
                     e == IF i = Len(keys) THEN keySnap'[i] ELSE reqs'[w].infos[i]
                 IN /\ e.Key = keys[i].Key
                    /\ e.Name = keys[i].Name
                    /\ e.Requests = calls[i].n
                    /\ e.Successes = calls[i].ok
                    /\ e.Failures = calls[i].n - calls[i].ok
                    /\ e.AverageLatencyMicroseconds =
                          IF calls[i].n > 0 THEN calls[i].lat \div calls[i].n ELSE 0
                    /\ e.Enabled = keys[i].Enabled ]_vars

\* C25 witness: a snapshot returned while the goroutine that recorded a
\* request on the first key was still in RoundTrip shows that request.
C25_Witness ==
    /\ keySnap # <<>>
    /\ keySnap[1].Requests = 1
    /\ keySnap[1].Requests = keySnap[1].Successes + keySnap[1].Failures
    /\ keySnap[1].AverageLatencyMicroseconds = 3
    /\ \E w \in 1..NumWorkers : reqs[w].pc = "RoundTrip.exit" /\ reqs[w].cur = 1

\* C27: GetGlobalProxyStats is never about to copy ActiveConnections (a plain
\* read, under ps.stats.mu) while a RoundTrip is about to add to it (an atomic
\* write, under no mutex).
C27_NoRaceOnActiveConnections ==
    \A w, v \in 1..NumWorkers :
        ~(/\ reqs[w].pc = "Stats.copy"
          /\ reqs[v].pc \in {"RoundTrip.enter", "RoundTrip.exit"})

NewlinesOf(file) == {i \in 1..Len(file) : file[i] = "\n"}
NthNewline(file, k) ==
    IF k = 0 THEN 0
    ELSE IF k > Cardinality(NewlinesOf(file)) THEN Len(file) + 1
    ELSE CHOOSE p \in NewlinesOf(file) :
            Cardinality({q \in NewlinesOf(file) : q < p}) = k - 1
LinesOf(file) ==
    [k \in 1..(Cardinality(NewlinesOf(file)) + 1) |->
        SubSeq(file, NthNewline(file, k - 1) + 1, NthNewline(file, k) - 1)]

\* A line of white space only, and a line whose first character is '#'.
IsBlank(line) == \A i \in 1..Len(line) : IsSpace(line[i])
BeginsWithHash(line) == Len(line) > 0 /\ line[1] = "#"
IsKeyLine(line) == ~IsBlank(line) /\ ~BeginsWithHash(line)

\* A line without the white space around it.
Stripped(line) ==
    IF IsBlank(line) THEN <<>>
    ELSE LET inked == {i \in 1..Len(line) : ~IsSpace(line[i])}
             first == CHOOSE i \in inked : \A j \in inked : i <= j
             last == CHOOSE i \in inked : \A j \in inked : j <= i
         IN SubSeq(line, first, last)
StrippedLinesOf(file) == [k \in 1..Len(LinesOf(file)) |-> Stripped(LinesOf(file)[k])]

\* The pool is the one constructed of the given key strings: in their order,
\* every key enabled and "Active", all counters zero, the cursor at 0.
FreshPoolOf(rawKeys) ==
    /\ Len(keys) = Len(rawKeys)
    /\ currentKeyIdx = 0
    /\ \A i \in 1..Len(keys) :
          /\ keys[i].Key = rawKeys[i]
          /\ keys[i].Enabled
          /\ keys[i].Status = "Active"
          /\ keys[i].Requests = 0
          /\ keys[i].Successes = 0
          /\ keys[i].Failures = 0
          /\ keys[i].TotalLatencyMicroseconds = 0
          /\ keys[i].AverageLatencyMicroseconds = 0

\* C31 as stated: NewKeyManager fails when the keys file is unreadable or has
\* no line other than blank lines and lines beginning with '#'; otherwise the
\* pool holds exactly the other lines, in file order, enabled, "Active", with
\* zero counters and the cursor at 0.
C31_PoolOfFileLines ==
    LET keyLines == IF ~startup.file.readable THEN <<>>
                    ELSE SelectSeq(LinesOf(startup.file.content), IsKeyLine)
    IN /\ startup.state = "failed" => keyLines = <<>>
       /\ startup.state = "running" => (keyLines # <<>> /\ FreshPoolOf(keyLines))

\* C31 amended: the lines are taken without the white space around them; a
\* line counts as blank when nothing is left of it and as a comment when what
\* is left begins with '#'.
C31_PoolOfTrimmedLines ==
    LET keyLines == IF ~startup.file.readable THEN <<>>
                    ELSE SelectSeq(StrippedLinesOf(startup.file.content), IsKeyLine)
    IN /\ startup.state = "failed" => keyLines = <<>>
       /\ startup.state = "running" => (keyLines # <<>> /\ FreshPoolOf(keyLines))

\* C31 witness: a file with an indented comment line and a key on the last
\* line, without a newline after it, gave a pool of that one key.
C31_Witness ==
    /\ startup.state = "running"
    /\ startup.file = Readable(<<" ", "#", "\n", "A">>)
    /\ Len(keys) = 1
    /\ keys[1].Key = <<"A">>


\* ------------------------------------- properties of the disabled credentials
\* C32: while a key stays disabled no step raises its Requests.
C32_DisabledKeyCountsNothing ==
    [][ \A i \in 1..Len(keys) :
          (~keys[i].Enabled /\ ~keys'[i].Enabled) =>
              keys'[i].Requests = keys[i].Requests ]_vars


\* -------------------------------------------------- properties of the dashboard
\* How often an item occurs in a list.
Occurrences(x, list) == Cardinality({i \in 1..Len(list) : list[i] = x})

\* list holds the (at most topN) best of items under Better, best first:
\* nothing is in it more often than in items, nothing left out is better than
\* something in it, and no item stands after one it is better than.
BestFirst(list, items, Better(_, _)) ==
    /\ Len(list) = IF Len(items) <= topN THEN Len(items) ELSE topN
    /\ \A i \in 1..Len(list) : Occurrences(list[i], list) <= Occurrences(list[i], items)
    /\ \A i \in 1..Len(items) :
          Occurrences(items[i], list) < Occurrences(items[i], items) =>
              \A j \in 1..Len(list) : ~Better(items[i], list[j])
    /\ \A i, j \in 1..Len(list) : i < j => ~Better(list[j], list[i])

\* C33: in a dashboard response TopPerformingKeys holds the (at most 5) keys
\* of highest success rate, higher rate first and more requests first on
\* ties, and BottomPerformingKeys the (at most 5) keys of lowest success rate,
\* lower rate first and fewer requests first on ties.
C33_TopAndBottomKeys ==
    [][ dashboard' # dashboard =>
          LET keyInfos == GetKeyInfoSnapshot(keys)
              items == [i \in 1..Len(keyInfos) |-> ApiKeyPerformanceItem(keyInfos[i])]
          IN /\ BestFirst(dashboard'.TopPerformingKeys, items, LessForTop)
             /\ BestFirst(dashboard'.BottomPerformingKeys, items, LessForBottom) ]_vars


\* --------------------------------------- properties of the status under locks
\* C35: a key GetKey returns is enabled at the moment GetKey returns it,
\* whatever SetKeyStatus and ToggleKeyStatus calls run concurrently.
C35_ReturnedKeyEnabled ==
    [][ \A w \in 1..NumWorkers :
          (/\ reqs[w].pc = "GetKey.check"
           /\ reqs'[w].pc = "RoundTrip.enter"
           /\ reqs'[w].sel # 0) => keys[reqs'[w].sel].Enabled ]_vars

\* C35 witness: GetKey has returned a key, and a SetKeyStatus call that
\* disables this key has since taken km.mu and is about to lock the key.
C35_Witness ==
    \E w, v \in 1..NumWorkers :
        /\ reqs[w].pc = "RoundTrip.enter"
        /\ reqs[w].sel # 0
        /\ reqs[v].pc = "Status.keylock"
        /\ reqs[v].op = "SetKeyStatus"
        /\ reqs[v].i = reqs[w].sel
        /\ ~reqs[v].flag


\* C36: whenever a key's mutex is free (an observer can lock the key), its
\* Status is "Active" exactly when Enabled is true and "Disabled" exactly when
\* Enabled is false.
C36_LabelAgreesUnderLock ==
    \A i \in 1..Len(keys) :
        Free(KeyMu(i)) =>
            /\ keys[i].Status = "Active" <=> keys[i].Enabled
            /\ keys[i].Status = "Disabled" <=> ~keys[i].Enabled

\* C36 witness: the first key was disabled by a call that has returned, and a
\* second call, a toggle of the same key, is waiting for the key's mutex.
C36_Witness ==
    /\ Free(KeyMu(1))
    /\ ~keys[1].Enabled
    /\ keys[1].Status = "Disabled"
    /\ \E w \in 1..NumWorkers :
          /\ reqs[w].pc = "Status.keylock"
          /\ reqs[w].op = "ToggleKeyStatus"
          /\ reqs[w].i = 1


\* C34: under fair scheduling every call that has started (GetKey and the
\* request it belongs to, SetKeyStatus, ToggleKeyStatus, GetKeyInfoSnapshot,
\* GetGlobalProxyStats) gets the mutexes it needs and returns.
C34_NoDeadlock ==
    \A w \in 1..NumWorkers : (reqs[w].pc # "idle") ~> (reqs[w].pc = "idle")

\* C34 witness: a goroutine in GetKey holds km.mu and waits for the mutex of a
\* key that a goroutine in RecordRequest holds.
C34_Witness ==
    \E w, v \in 1..NumWorkers :
        /\ reqs[w].pc = "GetKey.keylock"
        /\ reqs[w].held = {KmMu}
        /\ reqs[v].pc \in {"RecordRequest.count", "RecordRequest.latency"}
        /\ KeyMu(reqs[w].idx + 1) \in reqs[v].held

\* What a credential has counted: everything but the flag and its label.
Counters(ki) ==
    [ Name |-> ki.Name, Key |-> ki.Key, Requests |-> ki.Requests,
      Successes |-> ki.Successes, Failures |-> ki.Failures,
      TotalLatencyMicroseconds |-> ki.TotalLatencyMicroseconds,
      AverageLatencyMicroseconds |-> ki.AverageLatencyMicroseconds ]

\* C37: a SetKeyStatus or ToggleKeyStatus call changes the Enabled flag and
\* the Status label of one credential and nothing else: the rotation cursor,
\* every credential's counters and every other credential's flag are as they
\* were; and a step of a request (GetKey, RecordRequest and the rest of the
\* round trip) changes no Enabled flag and no Status label.
C37_StatusChangeFrame ==
    [][ /\ Len(keys') = Len(keys)
        /\ budget'.admin # budget.admin =>
              /\ currentKeyIdx' = currentKeyIdx
              /\ \A j \in 1..Len(keys) : Counters(keys'[j]) = Counters(keys[j])
              /\ Cardinality({j \in 1..Len(keys) : keys'[j] # keys[j]}) <= 1
        /\ budget'.admin = budget.admin =>
              \A j \in 1..Len(keys) :
                  /\ keys'[j].Enabled = keys[j].Enabled
                  /\ keys'[j].Status = keys[j].Status ]_vars

\* A credential that has counted a request was disabled while the cursor was
\* off zero and another credential stayed enabled.
C37_Witness ==
    /\ budget.admin < MaxAdminOps
    /\ currentKeyIdx # 0
    /\ \E i, j \in 1..Len(keys) :
          /\ i # j
          /\ ~keys[i].Enabled /\ keys[i].Requests > 0
          /\ keys[j].Enabled
\* The goroutines whose request RoundTrip has counted in the global statistics
\* and not yet on its credential.
RecordedGloballyOnly == {w \in 1..NumWorkers : reqs[w].pc = "recordkey"}

\* C38: in every state, also while requests are between the global and the
\* per-credential update, the Requests of all credentials add up to at most
\* TotalRequests, and what is missing is at most the number of requests
\* counted globally but not yet on their credential plus the number of
\* requests counted without a credential.
C38_RequestsWithinTotal ==
    LET sum == SumRequests(keys, Len(keys)) IN
    /\ sum <= stats.TotalRequests
    /\ stats.TotalRequests - sum
           <= Cardinality(RecordedGloballyOnly) + uncredentialed

\* One request was counted without a credential and another is between the
\* global and the per-credential update.
C38_Witness ==
    /\ uncredentialed > 0
    /\ RecordedGloballyOnly # {}
    /\ stats.TotalRequests > SumRequests(keys, Len(keys))

\* C39: when the user clicks a checkbox of the settings list, the credential
\* the checkbox was built for ends up with its Enabled flag equal to the new
\* state of the checkbox, also when the settings API changed the credential
\* after the list was rendered.
C39_ClickSetsCheckboxState ==
    [][ (tui' # tui /\ tui'.clicked # 0) =>
            keys'[tui'.clicked].Enabled = tui'.checked ]_vars

====
